---- MODULE Spec2Model ----
(***************************************************************************)
(* A model of openai_agents_server.py: the two fetch caches                *)
(* (fetch_doc_page, fetch_github_file) and the concurrent directory crawl  *)
(* of list_github_structure / process_directory.                           *)
(***************************************************************************)
EXTENDS Integers, Sequences, FiniteSets, TLC

(***************************************************************************)
(* Bounds of the model.                                                    *)
(***************************************************************************)
\* number of fetch_doc_page / fetch_github_file invocations in one run
NumCalls == 2

VARIABLES
    \* ---- the fetch caches (module globals, lines 20-21) ----
    doc_cache,      \* dict url -> extracted text
    github_cache,   \* dict path -> raw text
    \* ---- one record of state per invocation of a fetch helper ----
    fpc,            \* position of the invocation in the coroutine
    fkind,          \* "doc" (fetch_doc_page) or "github" (fetch_github_file)
    fkey,           \* the url / path argument
    fresult,        \* the value returned to the caller
    fhit,           \* whether the cache check of the invocation was a hit
    \* ---- observation of the run (a fetch counter on the network primitive,
    \*      the order of cache writes, the order of the invocations) ----
    requests,       \* per invocation: network requests it issued
    writeLog,       \* the cache writes in the order they happened
    doneBefore      \* per invocation: the invocations finished when it began

cacheVars == <<doc_cache, github_cache, fpc, fkind, fkey, fresult, fhit,
               requests, writeLog, doneBefore>>

VARIABLES
    \* ---- one run of the listing step of process_directory on one page ----
    lsDir,          \* dir_path
    lsPage,         \* the parsed response (soup)
    lsOut           \* structure and subdirs after the listing step

listVars == <<lsDir, lsPage, lsOut>>

VARIABLES
    \* ---- one call of list_github_structure ----
    remote,         \* what github.com answers for each directory
    main,           \* position of list_github_structure
    root_structure, \* root_structure
    tasks,          \* the process_directory coroutines, by position in the
                    \* tree of gathers: <<i>> crawls key_dirs[i], <<i, j>>
                    \* the j-th sub-directory found by <<i>>
    errors,         \* errors, the list the coroutines share
    returned        \* full_structure, once returned

crawlVars == <<remote, main, root_structure, tasks, errors, returned>>

VARIABLES
    \* ---- one run of the match-and-snippet step of the searches ----
    hitContent,     \* content / page_content / file_content
    hitQuery,       \* the query argument of the search
    hitOut          \* the result the step appended, or that it appended none

hitVars == <<hitContent, hitQuery, hitOut>>

VARIABLES
    \* ---- one call of get_section ----
    secPage,        \* the page argument
    secSection,     \* the section argument
    secResponse,    \* what the documentation site answers for the page
    secOut          \* the value returned

secVars == <<secPage, secSection, secResponse, secOut>>

VARIABLES
    \* ---- one call of a search tool ----
    tool,           \* the tool called
    arg,            \* its argument (query, filename_pattern, topic, ...)
    site,           \* what the documentation site and github.com answer
    net,            \* the network requests issued, in order
    sd,             \* the locals of search_docs
    sg,             \* the locals of search_github
    sf,             \* the locals of search_files
    gc,             \* the locals of get_code_examples
    ga              \* the locals of get_api_docs

searchVars == <<tool, arg, site, net, sd, sg, sf, gc, ga>>

\* what the fetch helpers never touch
notCacheVars == <<listVars, crawlVars, hitVars, secVars, searchVars>>

\* what the listing step never touches
notListVars == <<cacheVars, crawlVars, hitVars, secVars, searchVars>>

\* what list_github_structure never touches
notCrawlVars == <<cacheVars, listVars, hitVars, secVars, searchVars>>

\* what the match-and-snippet step never touches
notHitVars == <<cacheVars, listVars, crawlVars, secVars, searchVars>>

\* what get_section never touches
notSecVars == <<cacheVars, listVars, crawlVars, hitVars, searchVars>>

\* what the search tools never touch: all but the two caches
notSearchVars == <<fpc, fkind, fkey, fresult, fhit, requests, writeLog, doneBefore,
                   listVars, crawlVars, hitVars, secVars>>

vars == <<cacheVars, listVars, crawlVars, hitVars, secVars, searchVars>>

(***************************************************************************)
(* Values                                                                  *)
(***************************************************************************)
Calls == 1..NumCalls

Max(S) == CHOOSE x \in S : \A y \in S : y <= x

None == "None"

\* None where a str is expected, None where a dict is expected
NoStr == <<"None">>

NoDict == [none |-> TRUE]

\* The url argument of fetch_doc_page.  A url is either absolute (it starts
\* with 'http') or relative to DOCS_URL; loc is the page below DOCS_URL it
\* names.  [http |-> FALSE, loc |-> "agents"] is the string "agents",
\* [http |-> TRUE, loc |-> "agents"] the string DOCS_URL + "agents".
DocUrls ==
    { [http |-> FALSE, loc |-> "agents"],
      [http |-> TRUE,  loc |-> "agents"],
      [http |-> FALSE, loc |-> "tools"] }

\* The path argument of fetch_github_file.
GithubPaths == { "README.md", "examples/basic_agent.py" }

\* What the documentation site can answer with: a page with or without a
\* main content element (article / main / div.markdown-body).
DocBodies ==
    { [hasMain |-> TRUE,  main |-> "guide v1", full |-> "nav guide v1"],
      [hasMain |-> TRUE,  main |-> "guide v2", full |-> "nav guide v2"],
      [hasMain |-> FALSE, main |-> "",         full |-> "plain page"] }

\* What raw.githubusercontent.com can answer with.
RawBodies == { "print(1)", "print(2)" }

KeysOf(kind) == IF kind = "doc" THEN DocUrls ELSE GithubPaths

BodiesOf(kind) == IF kind = "doc" THEN DocBodies ELSE RawBodies

(***************************************************************************)
(* fetch_doc_page / fetch_github_file, piece by piece                      *)
(***************************************************************************)
\* full_url = url if url.startswith('http') else urljoin(DOCS_URL, url)
FullUrl(url) == [http |-> TRUE, loc |-> url.loc]

\* main_content.get_text(...) if main_content else soup.get_text(...)
ExtractContent(html) == IF html.hasMain THEN html.main ELSE html.full

\* content as computed from the response of either helper
ContentOf(kind, body) == IF kind = "doc" THEN ExtractContent(body) ELSE body

\* `if url in doc_cache` / `if path in github_cache`
CacheHitNever(cache, key) == FALSE

CacheHit(cache, key) == key \in DOMAIN cache

\* d[key] = value on a dict
DictSet(cache, key, value) ==
    [k \in DOMAIN cache \cup {key} |-> IF k = key THEN value ELSE cache[k]]

DictDel(cache, key) == [k \in DOMAIN cache \ {key} |-> cache[k]]

\* The cache after the response of the awaited request arrived: ok is FALSE
\* when raise_for_status() raised or the request itself raised, and then the
\* statement doc_cache[url] = content is never reached.
CacheAfterResponseStoreFailure(cache, key, ok, content) ==
    DictSet(cache, key, IF ok THEN content ELSE "error page")

CacheAfterResponseEvict(cache, key, ok, content) ==
    IF ok THEN DictSet(cache, key, content)
    ELSE IF key \in DOMAIN cache THEN DictDel(cache, key) ELSE cache

CacheAfterResponseFirstWins(cache, key, ok, content) ==
    IF ok /\ key \notin DOMAIN cache THEN DictSet(cache, key, content) ELSE cache

CacheAfterResponse(cache, key, ok, content) ==
    IF ok THEN DictSet(cache, key, content) ELSE cache

CacheOf(kind) == IF kind = "doc" THEN doc_cache ELSE github_cache

Finished(c) == fpc[c] \in {"returned", "raised"}

(***************************************************************************)
(* Actions of the fetch helpers                                            *)
(***************************************************************************)
\* no fetch under way
IdleFetches ==
    /\ fpc = [c \in Calls |-> "idle"]
    /\ fkind = [c \in Calls |-> None]
    /\ fkey = [c \in Calls |-> None]
    /\ fresult = [c \in Calls |-> None]
    /\ fhit = [c \in Calls |-> None]
    /\ requests = [c \in Calls |-> 0]
    /\ writeLog = << >>
    /\ doneBefore = [c \in Calls |-> {}]

InitCache ==
    /\ doc_cache = << >>
    /\ github_cache = << >>
    /\ IdleFetches

\* A caller invokes fetch_doc_page(url) or fetch_github_file(path): the
\* coroutine runs to its first suspension.  On a hit it returns the cached
\* value at once; on a miss it goes on to open the client.
FetchCall(c) ==
    /\ fpc[c] = "idle"
    /\ \E kind \in {"doc", "github"} : \E key \in KeysOf(kind) :
        /\ fkind' = [fkind EXCEPT ![c] = kind]
        /\ fkey' = [fkey EXCEPT ![c] = key]
        /\ fhit' = [fhit EXCEPT ![c] = CacheHit(CacheOf(kind), key)]
        /\ IF CacheHit(CacheOf(kind), key)
           THEN /\ fpc' = [fpc EXCEPT ![c] = "returned"]
                /\ fresult' = [fresult EXCEPT ![c] = CacheOf(kind)[key]]
           ELSE /\ fpc' = [fpc EXCEPT ![c] = "miss"]
                /\ UNCHANGED fresult
    /\ doneBefore' = [doneBefore EXCEPT ![c] = {d \in Calls : Finished(d)}]
    /\ UNCHANGED <<doc_cache, github_cache, requests, writeLog>>
    /\ UNCHANGED notCacheVars

\* `response = await client.get(full_url)`: the request goes out and the
\* coroutine is suspended until the answer arrives.
FetchRequest(c) ==
    /\ fpc[c] = "miss"
    /\ fpc' = [fpc EXCEPT ![c] = "awaiting"]
    /\ requests' = [requests EXCEPT ![c] = @ + 1]
    /\ UNCHANGED <<doc_cache, github_cache, fkind, fkey, fresult, fhit,
                   writeLog, doneBefore>>
    /\ UNCHANGED notCacheVars

\* The answer arrives.  ok = FALSE stands for an error status
\* (raise_for_status raises) and for a request that raises.
FetchRespond(c) ==
    /\ fpc[c] = "awaiting"
    /\ \E ok \in BOOLEAN : \E body \in BodiesOf(fkind[c]) :
        LET content == ContentOf(fkind[c], body)
            after == CacheAfterResponse(CacheOf(fkind[c]), fkey[c], ok, content)
        IN  /\ IF fkind[c] = "doc"
               THEN doc_cache' = after /\ UNCHANGED github_cache
               ELSE github_cache' = after /\ UNCHANGED doc_cache
            /\ writeLog' =
                 IF ok THEN Append(writeLog, [call |-> c, kind |-> fkind[c],
                                              key |-> fkey[c], value |-> content])
                 ELSE writeLog
            /\ fpc' = [fpc EXCEPT ![c] = IF ok THEN "returned" ELSE "raised"]
            /\ fresult' = [fresult EXCEPT ![c] = IF ok THEN content ELSE None]
    /\ UNCHANGED <<fkind, fkey, fhit, requests, doneBefore>>
    /\ UNCHANGED notCacheVars

NextCache ==
    \E c \in Calls : FetchCall(c) \/ FetchRequest(c) \/ FetchRespond(c)

(***************************************************************************)
(* Strings.  A Python str is a sequence of one-character strings, so that  *)
(* startswith, replace, split and `in` are computed as Python computes     *)
(* them.                                                                   *)
(***************************************************************************)
Range(s) == {s[i] : i \in 1..Len(s)}

\* s.startswith(p)
StartsWith(s, p) == Len(s) >= Len(p) /\ SubSeq(s, 1, Len(p)) = p

\* sub in s
Contains(s, sub) ==
    \E i \in 1..(Len(s) - Len(sub) + 1) : SubSeq(s, i, i + Len(sub) - 1) = sub

\* s.replace(old, new): every non-overlapping occurrence of old, scanning
\* from the left (old is never empty here)
RECURSIVE ReplaceAll(_, _, _)
ReplaceAll(s, old, new) ==
    IF Len(s) < Len(old) THEN s
    ELSE IF SubSeq(s, 1, Len(old)) = old
         THEN new \o ReplaceAll(SubSeq(s, Len(old) + 1, Len(s)), old, new)
         ELSE <<s[1]>> \o ReplaceAll(Tail(s), old, new)

\* s.split(ch)[-1]
SplitLast(s, ch) ==
    LET at == {i \in 1..Len(s) : s[i] = ch}
    IN  IF at = {} THEN s ELSE SubSeq(s, Max(at) + 1, Len(s))

\* s.lower(), on the letters the model uses
LowerChar(ch) ==
    CASE ch = "A" -> "a"
      [] ch = "B" -> "b"
      [] ch = "D" -> "d"
      [] ch = "F" -> "f"
      [] ch = "I" -> "i"
      [] ch = "S" -> "s"
      [] OTHER -> ch

Lower(s) == [i \in 1..Len(s) |-> LowerChar(s[i])]

Slash == <<"/">>

\* f"{a}/{b}"
Join(a, b) == a \o Slash \o b

RepoTreePrefix == <<"/", "o", "p", "e", "n", "a", "i", "/", "o", "p", "e", "n", "a", "i", "-", "a", "g", "e", "n", "t", "s", "-", "p", "y", "t", "h", "o", "n", "/", "t", "r", "e", "e", "/", "m", "a", "i", "n", "/">>

RepoBlobPrefix == <<"/", "o", "p", "e", "n", "a", "i", "/", "o", "p", "e", "n", "a", "i", "-", "a", "g", "e", "n", "t", "s", "-", "p", "y", "t", "h", "o", "n", "/", "b", "l", "o", "b", "/", "m", "a", "i", "n", "/">>

TreeMarker == <<"/", "t", "r", "e", "e", "/", "m", "a", "i", "n", "/">>

BlobMarker == <<"/", "b", "l", "o", "b", "/", "m", "a", "i", "n", "/">>

LabelDirectory == <<"D", "i", "r", "e", "c", "t", "o", "r", "y">>

LabelFile == <<"F", "i", "l", "e">>

StrDirectory == <<"d", "i", "r", "e", "c", "t", "o", "r", "y">>

StrDir == <<"d", "i", "r">>

Examples == <<"e", "x", "a", "m", "p", "l", "e", "s">>

Src == <<"s", "r", "c">>

Docs == <<"d", "o", "c", "s">>

Tests == <<"t", "e", "s", "t", "s">>

Agents == <<"a", "g", "e", "n", "t", "s">>

BasicAgentPy == <<"b", "a", "s", "i", "c", "_", "a", "g", "e", "n", "t", ".", "p", "y">>

HandoffsPy == <<"h", "a", "n", "d", "o", "f", "f", "s", ".", "p", "y">>

\* f"{GITHUB_URL}/blob/main/{path}"; GITHUB_URL is kept as one token
BlobUrl(path) == <<"https://github.com/openai/openai-agents-python", "/blob/main/">> \o path

(***************************************************************************)
(* The listing step of process_directory: from the parsed page of a        *)
(* directory to structure and subdirs (lines 1348-1455).                   *)
(*                                                                         *)
(* A page is [layout, entries].  With layout "rows" the entries are the    *)
(* elements the row selectors find (file_items), each with the href and    *)
(* text of its link (href = NoStr: a row without a link) and the          *)
(* aria-label of its svg (NoStr: no svg, or no label).  With layout        *)
(* "links" no row selector matches and the entries are the links of the    *)
(* repository content area.                                                *)
(***************************************************************************)
\* a directory entry without a "contents" key
NoContents == [absent |-> TRUE]

\* file_items = soup.select(...) or soup.select(...) or soup.select(...)
FileItems(page) == IF page.layout = "rows" THEN page.entries ELSE << >>

\* repo_content_area.find_all("a"), when that area exists
AreaLinks(page) == IF page.layout = "links" THEN page.entries ELSE << >>

\* lines 1406-1411
IsDir(e) ==
    IF e.label # NoStr /\ e.label # << >>
    THEN Contains(Lower(e.label), StrDirectory) \/ Contains(Lower(e.label), StrDir)
    ELSE IF e.href # << >> THEN Contains(e.href, TreeMarker) ELSE FALSE

\* lines 1413-1420
ItemPath(e) ==
    IF IsDir(e) THEN ReplaceAll(e.href, RepoTreePrefix, << >>)
    ELSE ReplaceAll(e.href, RepoBlobPrefix, << >>)

\* lines 1422-1425: "Make sure it's in the current directory", "Only direct
\* children"
AcceptsItem(dir_path, item_path) ==
    /\ StartsWith(item_path, dir_path \o Slash)
    /\ "/" \notin Range(ReplaceAll(item_path, dir_path \o Slash, << >>))

\* name.split('.')[-1] if '.' in name else ""
Extension(name) == IF "." \in Range(name) THEN SplitLast(name, ".") ELSE << >>

DirInfo(name, path) == [name |-> name, path |-> path, contents |-> NoContents]

FileInfo(name, path) ==
    [name |-> name, path |-> path, extension |-> Extension(name), url |-> BlobUrl(path)]

\* one iteration of `for item in file_items` (lines 1392-1442)
ItemStep(acc, e, dir_path) ==
    IF e.href = NoStr THEN acc
    ELSE IF ~AcceptsItem(dir_path, ItemPath(e)) THEN acc
    ELSE IF IsDir(e)
         THEN [acc EXCEPT !.directories = Append(@, DirInfo(e.text, ItemPath(e))),
                          !.subdirs = Append(@, ItemPath(e))]
         ELSE [acc EXCEPT !.files = Append(@, FileInfo(e.text, ItemPath(e)))]

\* one iteration of `for link in links` (lines 1364-1389)
LinkStep(acc, e, dir_path) ==
    IF e.href = NoStr THEN acc
    ELSE IF ~(Contains(e.href, BlobMarker) \/ Contains(e.href, TreeMarker)) THEN acc
    ELSE IF ~(\/ Contains(e.href, TreeMarker \o dir_path \o Slash)
              \/ Contains(e.href, BlobMarker \o dir_path \o Slash)) THEN acc
    ELSE IF Contains(e.href, TreeMarker)
         THEN LET path == ReplaceAll(e.href, RepoTreePrefix \o dir_path \o Slash, << >>)
              IN  IF path # << >> /\ "/" \notin Range(path)
                  THEN [acc EXCEPT
                          !.directories = Append(@, DirInfo(path, Join(dir_path, path))),
                          !.subdirs = Append(@, Join(dir_path, path))]
                  ELSE acc
         ELSE LET path == ReplaceAll(e.href, RepoBlobPrefix \o dir_path \o Slash, << >>)
              IN  IF path # << >> /\ "/" \notin Range(path)
                  THEN [acc EXCEPT
                          !.files = Append(@, FileInfo(path, Join(dir_path, path)))]
                  ELSE acc

RECURSIVE ForItems(_, _, _)
ForItems(acc, items, dir_path) ==
    IF items = << >> THEN acc
    ELSE ForItems(ItemStep(acc, Head(items), dir_path), Tail(items), dir_path)

RECURSIVE ForLinks(_, _, _)
ForLinks(acc, links, dir_path) ==
    IF links = << >> THEN acc
    ELSE ForLinks(LinkStep(acc, Head(links), dir_path), Tail(links), dir_path)

\* lines 1444-1455: default entries of the well-known directories
WithDefaults(acc, dir_path) ==
    IF acc.files # << >> \/ acc.directories # << >> THEN acc
    ELSE IF dir_path = Examples
         THEN [acc EXCEPT !.files =
                 << [name |-> BasicAgentPy, path |-> Join(Examples, BasicAgentPy),
                     extension |-> <<"p", "y">>],
                    [name |-> HandoffsPy, path |-> Join(Examples, HandoffsPy),
                     extension |-> <<"p", "y">>] >>]
    ELSE IF dir_path = Src
         THEN [acc EXCEPT !.directories = << [name |-> Agents, path |-> Join(Src, Agents),
                                              contents |-> NoContents] >>]
    ELSE acc

\* structure and subdirs when the recursion step is reached (line 1457)
Listed(dir_path, page) ==
    LET empty == [files |-> << >>, directories |-> << >>, path |-> dir_path,
                  subdirs |-> << >>]
        found == IF FileItems(page) = << >>
                 THEN ForLinks(empty, AreaLinks(page), dir_path)
                 ELSE ForItems(empty, FileItems(page), dir_path)
    IN  WithDefaults(found, dir_path)

(***************************************************************************)
(* The listing step alone, on the pages a directory can answer with.       *)
(***************************************************************************)
\* entries in one page
MaxEntries == 2

\* directories whose listing step is run
ListDirs == { <<"a">>, Docs }

\* what the href of an entry of the page of dir_path can be: a direct
\* child, paths below a sub-directory (one named like dir_path itself, one
\* whose name ends like dir_path), dir_path itself, a path elsewhere
EntryPaths(dir_path) ==
    { Join(dir_path, <<"b">>),
      Join(dir_path, <<"c", ".", "p", "y">>),
      Join(Join(dir_path, dir_path), <<"b">>),
      Join(Join(dir_path, <<"b">>), <<"c">>),
      Join(Join(dir_path, <<"m">> \o dir_path), <<"b">>),
      dir_path,
      Join(<<"x">>, <<"b">>) }

EntriesOf(dir_path) ==
    { [href |-> NoStr, text |-> << >>, label |-> NoStr] } \cup
    { [href |-> prefix \o path, text |-> SplitLast(path, "/"), label |-> label] :
        prefix \in {RepoTreePrefix, RepoBlobPrefix},
        path \in EntryPaths(dir_path),
        label \in {NoStr, LabelDirectory, LabelFile} }

RECURSIVE SeqsUpTo(_, _)
SeqsUpTo(S, n) ==
    IF n = 0 THEN { << >> }
    ELSE LET shorter == SeqsUpTo(S, n - 1)
         IN  shorter \cup { Append(q, x) : q \in shorter, x \in S }

PagesOf(dir_path) ==
    { [layout |-> layout, entries |-> entries] :
        layout \in {"rows", "links"},
        entries \in SeqsUpTo(EntriesOf(dir_path), MaxEntries) }

\* no listing step is under way
IdleList == lsDir = NoStr /\ lsPage = NoDict /\ lsOut = NoDict

InitList ==
    /\ lsDir \in ListDirs
    /\ lsPage \in PagesOf(lsDir)
    /\ lsOut = NoDict

\* process_directory from the parsed page to the recursion step
ListStep ==
    /\ lsOut = NoDict
    /\ lsOut' = Listed(lsDir, lsPage)
    /\ UNCHANGED <<lsDir, lsPage>>
    /\ UNCHANGED notListVars

NextList == ListStep

(***************************************************************************)
(* list_github_structure and its process_directory coroutines              *)
(***************************************************************************)
\* max_depth=2, the default of process_directory
DefaultMaxDepth == 2

\* key_dirs of list_github_structure
key_dirs == <<Examples, Src, Docs, Tests>>

\* the path of the request of get_github_structure: f"{GITHUB_URL}/tree/main"
RootPath == <<"">>

NotFound == [status |-> 404]

\* an error status other than 404; it stands for a request that raises (a
\* timeout, a connection error) too: both leave through raise at line 1344
\* or 1339 and are caught at line 1479
Raises == [status |-> 500]

Ok(page) == [status |-> 200, page |-> page]

EmptyPage == [layout |-> "rows", entries |-> << >>]

MaxDepthNote == [note |-> "Max depth reached"]

\* {"error": f"Directory not found: {dir_path}"}
DirectoryNotFound(dir_path) == [error |-> <<"Directory not found: ">> \o dir_path]

\* {"error": f"Error processing directory {dir_path}: {str(e)}"}
ErrorProcessing(dir_path) ==
    [error |-> <<"Error processing directory ">> \o dir_path \o <<": ", "str(e)">>]

\* isinstance(result, dict) / isinstance(result, Exception)
IsException(result) == "exception" \in DOMAIN result

IsDict(result) == ~IsException(result)

IsStructure(result) == "files" \in DOMAIN result

IsError(result) == "error" \in DOMAIN result

\* What process_directory returns when the listing request did not answer
\* with a page: the 404 is answered with an error dict (lines 1340-1342),
\* everything raise_for_status or the request raises is caught at line 1479.
FailureResultUncaught(dir_path, resp) ==
    [exception |-> <<"HTTPStatusError ">> \o dir_path]

FailureResult(dir_path, resp) ==
    IF resp.status = 404 THEN DirectoryNotFound(dir_path)
    ELSE ErrorProcessing(dir_path)

\* ---- get_github_structure (lines 68-155) ----
\* one iteration of `for item in file_items` (lines 108-142)
RootItemStep(acc, e) ==
    IF e.href = NoStr THEN acc
    ELSE LET path == IF Contains(e.href, BlobMarker)
                     THEN ReplaceAll(e.href, RepoBlobPrefix, << >>)
                     ELSE IF Contains(e.href, TreeMarker)
                          THEN ReplaceAll(e.href, RepoTreePrefix, << >>)
                          ELSE << >>
         IN  IF path = << >> THEN acc
             ELSE IF IsDir(e)
                  THEN [acc EXCEPT !.directories =
                                      Append(@, [name |-> e.text, path |-> path])]
                  ELSE [acc EXCEPT !.files = Append(@, [name |-> e.text, path |-> path])]

\* one iteration of `for link in links` (lines 95-105)
RootLinkStep(acc, e) ==
    IF e.href = NoStr THEN acc
    ELSE IF ~(Contains(e.href, BlobMarker) \/ Contains(e.href, TreeMarker)) THEN acc
    ELSE LET path == ReplaceAll(ReplaceAll(e.href, RepoTreePrefix, << >>),
                                RepoBlobPrefix, << >>)
         IN  IF Contains(e.href, TreeMarker) /\ path # << >> /\ e.text # << >>
             THEN [acc EXCEPT !.directories =
                                 Append(@, [name |-> e.text, path |-> path])]
             ELSE IF path # << >> /\ e.text # << >>
                  THEN [acc EXCEPT !.files = Append(@, [name |-> e.text, path |-> path])]
                  ELSE acc

RECURSIVE RootForItems(_, _)
RootForItems(acc, items) ==
    IF items = << >> THEN acc ELSE RootForItems(RootItemStep(acc, Head(items)), Tail(items))

RECURSIVE RootForLinks(_, _)
RootForLinks(acc, links) ==
    IF links = << >> THEN acc ELSE RootForLinks(RootLinkStep(acc, Head(links)), Tail(links))

\* default_dirs (line 146) and the default root of list_github_structure
\* (lines 1313-1318)
DefaultDirs ==
    << [name |-> Examples, path |-> Examples], [name |-> Src, path |-> Src],
       [name |-> Docs, path |-> Docs], [name |-> Tests, path |-> Tests] >>

\* what get_github_structure returns
GetGithubStructure(resp) ==
    IF resp.status # 200
    THEN [error |-> <<"str(e)">>, files |-> << >>, directories |-> << >>]
    ELSE LET empty == [files |-> << >>, directories |-> << >>]
             found == IF FileItems(resp.page) = << >>
                      THEN RootForLinks(empty, AreaLinks(resp.page))
                      ELSE RootForItems(empty, FileItems(resp.page))
         IN  IF found.files = << >> /\ found.directories = << >>
             THEN [found EXCEPT !.directories = DefaultDirs]
             ELSE found

\* lines 1306-1319
RootStructure(resp) ==
    LET got == GetGithubStructure(resp)
    IN  IF "error" \in DOMAIN got
        THEN [files |-> << >>, directories |-> DefaultDirs]
        ELSE got

\* ---- process_directory (lines 1333-1481) ----
\* The coroutine up to its first suspension: at max_depth <= 0 it returns
\* the note at once, otherwise it sends the listing request.
NewTask(dir_path, max_depth) ==
    [dir_path |-> dir_path, max_depth |-> max_depth,
     pc |-> IF max_depth <= 0 THEN "done" ELSE "awaiting",
     structure |-> NoDict, subdirs |-> << >>,
     result |-> IF max_depth <= 0 THEN MaxDepthNote ELSE NoDict]

\* `if max_depth > 1 and subdirs` (line 1458)
Recurses(max_depth, subdirs) == max_depth > 1 /\ subdirs # << >>

ChildIds(t) == {c \in DOMAIN tasks : Len(c) = Len(t) + 1 /\ SubSeq(c, 1, Len(t)) = t}

\* asyncio.gather(*subdir_tasks, return_exceptions=True) has returned
GatherDoneEarly(ids) == TRUE

GatherDone(ids) == \A c \in ids : tasks[c].pc = "done"

\* lines 1468-1474 for one result: the first entry of
\* structure["directories"] with the name or the path of the sub-directory
\* gets the result as its contents
AttachOne(directories, subdir, result) ==
    LET hits == {k \in 1..Len(directories) :
                    \/ directories[k].name = SplitLast(subdir, "/")
                    \/ directories[k].path = subdir}
    IN  IF hits = {} THEN directories
        ELSE [directories EXCEPT ![CHOOSE k \in hits : \A h \in hits : k <= h].contents
                                     = result]

\* lines 1467-1476: `for i, result in enumerate(subdir_results)`, from i on
RECURSIVE AttachFrom(_, _, _, _)
AttachFrom(i, directories, subdirs, results) ==
    IF i > Len(subdirs) THEN directories
    ELSE AttachFrom(i + 1,
                    IF IsDict(results[i])
                    THEN AttachOne(directories, subdirs[i], results[i])
                    ELSE directories,
                    subdirs, results)

\* the messages lines 1475-1476 append to errors
SubdirErrors(subdirs, results) ==
    LET failed == {i \in 1..Len(subdirs) : IsException(results[i])}
        RECURSIVE From(_)
        From(i) == IF i > Len(subdirs) THEN << >>
                   ELSE (IF i \in failed
                         THEN << <<"Error processing subdirectory ">> \o subdirs[i] >>
                         ELSE << >>) \o From(i + 1)
    IN  From(1)

\* the dict process_directory returns (line 1478)
Structure(task, directories) ==
    [files |-> task.structure.files, directories |-> directories,
     path |-> task.structure.path]

\* ---- the remote repository of one run ----
\* the sub-directories a page of directory d can expose in the model
ChildPaths(d) == { Join(d, <<"a">>), Join(d, <<"c">>), Join(Join(d, d), <<"a">>) }

TreeEntry(path) ==
    [href |-> RepoTreePrefix \o path, text |-> SplitLast(path, "/"), label |-> NoStr]

BlobEntry(path) ==
    [href |-> RepoBlobPrefix \o path, text |-> SplitLast(path, "/"), label |-> NoStr]

\* what a key directory d can answer with
KeyDirResponses(d) ==
    { NotFound, Raises, Ok(EmptyPage),
      Ok([layout |-> "rows",
          entries |-> << BlobEntry(Join(d, <<"b", ".", "p", "y">>)),
                         TreeEntry(Join(d, <<"a">>)) >>]),
      Ok([layout |-> "rows",
          entries |-> << TreeEntry(Join(d, <<"a">>)), TreeEntry(Join(d, <<"c">>)) >>]),
      Ok([layout |-> "rows",
          entries |-> << TreeEntry(Join(Join(d, d), <<"a">>)),
                         TreeEntry(Join(d, <<"a">>)) >>]),
      Ok([layout |-> "links",
          entries |-> << TreeEntry(Join(d, <<"a">>)), TreeEntry(Join(d, <<"a">>)),
                         BlobEntry(Join(d, <<"b", ".", "p", "y">>)) >>]) }

\* what a sub-directory p can answer with
ChildResponses(p) ==
    { NotFound, Raises, Ok(EmptyPage),
      Ok([layout |-> "rows",
          entries |-> << BlobEntry(Join(p, <<"b", ".", "p", "y">>)),
                         TreeEntry(Join(p, <<"n">>)) >>]) }

\* what the repository root can answer with
RootResponses ==
    { Raises, Ok(EmptyPage),
      Ok([layout |-> "rows",
          entries |-> << TreeEntry(Examples),
                         BlobEntry(<<"R", "E", "A", "D", "M", "E", ".", "m", "d">>) >>]) }

\* the sub-directories the crawl of d goes into when d answers resp
Exposed(d, resp) ==
    IF resp.status = 200 THEN Range(Listed(d, resp.page).subdirs) ELSE {}

KeyDirSet == Range(key_dirs)

AllChildPaths == UNION {ChildPaths(d) : d \in KeyDirSet}

\* One key directory answers with any of its responses and its exposed
\* sub-directories with any of theirs; the other key directories all answer
\* alike: not found, an error, or an empty page.
InitCrawl ==
    /\ \E focus \in KeyDirSet :
       \E rootResp \in RootResponses :
       \E focusResp \in KeyDirResponses(focus) :
       \E otherResp \in {NotFound, Raises, Ok(EmptyPage)} :
       \E kind \in [ChildPaths(focus) -> 1..4] :
          LET childResp(p) ==
                  IF p \notin Exposed(focus, focusResp) \/ kind[p] = 1 THEN NotFound
                  ELSE IF kind[p] = 2 THEN Raises
                  ELSE IF kind[p] = 3 THEN Ok(EmptyPage)
                  ELSE Ok([layout |-> "rows",
                           entries |-> << BlobEntry(Join(p, <<"b", ".", "p", "y">>)),
                                          TreeEntry(Join(p, <<"n">>)) >>])
          IN  remote = [p \in {RootPath} \cup KeyDirSet \cup ChildPaths(focus) |->
                          IF p = RootPath THEN rootResp
                          ELSE IF p = focus THEN focusResp
                          ELSE IF p \in KeyDirSet THEN otherResp
                          ELSE childResp(p)]
    /\ main = "idle"
    /\ root_structure = NoDict
    /\ tasks = << >>
    /\ errors = << >>
    /\ returned = NoDict

IdleCrawl ==
    /\ remote = << >>
    /\ main = "idle"
    /\ root_structure = NoDict
    /\ tasks = << >>
    /\ errors = << >>
    /\ returned = NoDict

\* list_github_structure is called: get_github_structure sends its request
ListCall ==
    /\ main = "idle"
    /\ main' = "root"
    /\ UNCHANGED <<remote, root_structure, tasks, errors, returned>>
    /\ UNCHANGED notCrawlVars

\* the root page arrives; the coroutines of the key directories are
\* gathered, and each runs to its first suspension (lines 1306-1490)
RootRespond ==
    /\ main = "root"
    /\ root_structure' = RootStructure(remote[RootPath])
    /\ tasks' = [t \in {<<i>> : i \in 1..Len(key_dirs)} |->
                    NewTask(key_dirs[t[1]], DefaultMaxDepth)]
    /\ main' = "gather"
    /\ UNCHANGED <<remote, errors, returned>>
    /\ UNCHANGED notCrawlVars

\* the listing request of coroutine t is answered (lines 1339-1464, and
\* 1478 when there is nothing to recurse into)
CrawlRespond(t) ==
    /\ tasks[t].pc = "awaiting"
    /\ LET task == tasks[t]
           resp == remote[task.dir_path]
       IN  IF resp.status # 200
           THEN tasks' = [tasks EXCEPT ![t].pc = "done",
                                       ![t].result = FailureResult(task.dir_path, resp)]
           ELSE LET listed == Listed(task.dir_path, resp.page)
                    structure == [files |-> listed.files,
                                  directories |-> listed.directories,
                                  path |-> listed.path]
                IN  IF Recurses(task.max_depth, listed.subdirs)
                    THEN tasks' =
                           [c \in DOMAIN tasks \cup
                                  {Append(t, j) : j \in 1..Len(listed.subdirs)} |->
                              IF c = t
                              THEN [task EXCEPT !.pc = "gather",
                                                !.structure = structure,
                                                !.subdirs = listed.subdirs]
                              ELSE IF c \in DOMAIN tasks THEN tasks[c]
                              ELSE NewTask(listed.subdirs[c[Len(c)]], task.max_depth - 1)]
                    ELSE tasks' = [tasks EXCEPT ![t].pc = "done",
                                                ![t].structure = structure,
                                                ![t].subdirs = listed.subdirs,
                                                ![t].result = structure]
    /\ UNCHANGED <<remote, main, root_structure, errors, returned>>
    /\ UNCHANGED notCrawlVars

\* the gather of coroutine t returns; the results are attached and the
\* structure is returned (lines 1464-1478)
CrawlJoin(t) ==
    /\ tasks[t].pc = "gather"
    /\ GatherDone(ChildIds(t))
    /\ LET task == tasks[t]
           results == [j \in 1..Len(task.subdirs) |-> tasks[Append(t, j)].result]
           directories == AttachFrom(1, task.structure.directories, task.subdirs, results)
       IN  /\ tasks' = [tasks EXCEPT ![t].pc = "done",
                                     ![t].result = Structure(task, directories)]
           /\ errors' = errors \o SubdirErrors(task.subdirs, results)
    /\ UNCHANGED <<remote, main, root_structure, returned>>
    /\ UNCHANGED notCrawlVars

TopIds == {<<i>> : i \in 1..Len(key_dirs)}

\* dir_structures (lines 1493-1497)
DirStructures(results) ==
    [d \in {key_dirs[i] : i \in {k \in 1..Len(key_dirs) : IsDict(results[k])}} |->
        results[CHOOSE i \in 1..Len(key_dirs) : key_dirs[i] = d]]

\* the gather of list_github_structure returns; full_structure is put
\* together and returned (lines 1490-1513)
ListJoin ==
    /\ main = "gather"
    /\ GatherDone(TopIds)
    /\ LET results == [i \in 1..Len(key_dirs) |-> tasks[<<i>>].result]
           failed == {i \in 1..Len(key_dirs) : IsException(results[i])}
           RECURSIVE From(_)
           From(i) == IF i > Len(key_dirs) THEN << >>
                      ELSE (IF i \in failed
                            THEN << <<"Error processing directory ">> \o key_dirs[i] >>
                            ELSE << >>) \o From(i + 1)
           allErrors == errors \o From(1)
           dir_structures == DirStructures(results)
       IN  /\ errors' = allErrors
           /\ returned' =
                [repository |-> "openai/openai-agents-python",
                 url |-> "GITHUB_URL",
                 root |-> root_structure,
                 directories |-> dir_structures,
                 errors |-> allErrors,
                 summary |-> [total_root_files |-> Len(root_structure.files),
                              total_root_directories |-> Len(root_structure.directories),
                              explored_directories |-> DOMAIN dir_structures]]
    /\ main' = "returned"
    /\ UNCHANGED <<remote, root_structure, tasks>>
    /\ UNCHANGED notCrawlVars

NextCrawl ==
    \/ ListCall
    \/ RootRespond
    \/ \E t \in DOMAIN tasks : CrawlRespond(t)
    \/ \E t \in DOMAIN tasks : CrawlJoin(t)
    \/ ListJoin

(***************************************************************************)
(* The match-and-snippet step of search_docs and search_github: the same   *)
(* lines are applied to the main page, to every linked page, to every root *)
(* file and to every file of a key directory.                              *)
(***************************************************************************)
\* the characters str.strip() and str.split() treat as white space
Whitespace == {" ", "\t", "\n"}

\* the characters of context kept on each side of the match
SnippetContext == 100

Dots == <<".", ".", ".">>

Min(S) == CHOOSE x \in S : \A y \in S : x <= y

\* s.strip()
\* a variant: nothing is stripped
StripNothing(s) == s

Strip(s) ==
    LET keep == {i \in 1..Len(s) : s[i] \notin Whitespace}
    IN  IF keep = {} THEN << >> ELSE SubSeq(s, Min(keep), Max(keep))

\* s.split(): the maximal runs of characters that are not white space
RECURSIVE SplitWords(_)
SplitWords(s) ==
    IF s = << >> THEN << >>
    ELSE IF s[1] \in Whitespace THEN SplitWords(Tail(s))
    ELSE LET stops == {i \in 1..Len(s) : s[i] \in Whitespace}
             n == IF stops = {} THEN Len(s) ELSE Min(stops) - 1
         IN  <<SubSeq(s, 1, n)>> \o SplitWords(SubSeq(s, n + 1, Len(s)))

\* query = query.strip().lower()
CleanQuery(q) == Lower(Strip(q))

\* query_terms = query.split()
QueryTerms(q) == SplitWords(CleanQuery(q))

\* s.find(sub): the lowest offset (from 0) at which sub occurs, or -1
Find(s, sub) ==
    LET at == {i \in 1..(Len(s) - Len(sub) + 1) : SubSeq(s, i, i + Len(sub) - 1) = sub}
    IN  IF at = {} THEN -1 ELSE Min(at) - 1

\* any(term in content.lower() for term in query_terms)
AnyTermIn(content, query_terms) ==
    \E k \in 1..Len(query_terms) : Contains(Lower(content), query_terms[k])

\* a variant: the term whose occurrence comes first in the text
MatchingTermEarliestInText(content, query_terms) ==
    LET hits == {k \in 1..Len(query_terms) : Contains(Lower(content), query_terms[k])}
    IN  query_terms[CHOOSE k \in hits :
            \A j \in hits : Find(Lower(content), query_terms[k])
                               <= Find(Lower(content), query_terms[j])]

\* the term at which `for term in query_terms: if term in content.lower()`
\* reaches its break
MatchingTerm(content, query_terms) ==
    query_terms[Min({k \in 1..Len(query_terms) :
                        Contains(Lower(content), query_terms[k])})]

\* a variant: no context before the match
SnippetStartAtMatch(index) == index

\* start = max(0, index - 100)

SnippetStart(index) == IF index - SnippetContext > 0 THEN index - SnippetContext ELSE 0

\* a variant: everything after the match
SnippetEndUnclipped(content, index, term) == Len(content)

\* end = min(len(content), index + len(term) + 100)

SnippetEnd(content, index, term) ==
    IF index + Len(term) + SnippetContext < Len(content)
    THEN index + Len(term) + SnippetContext
    ELSE Len(content)

\* content[start:end]
Slice(s, start, end) == SubSeq(s, start + 1, end)

\* snippet = content[start:end] around the first occurrence of term
SnippetOf(content, term) ==
    LET index == Find(Lower(content), term)
    IN  Slice(content, SnippetStart(index), SnippetEnd(content, index, term))

NoHit == [hit |-> FALSE]

\* the dict the step appends to results: "snippet" and "matched_term" (the
\* other keys name the document), or NoHit when no term is in the content
MatchAndSnippet(content, query_terms) ==
    IF AnyTermIn(content, query_terms)
    THEN LET term == MatchingTerm(content, query_terms)
         IN  [hit |-> TRUE,
              snippet |-> Dots \o SnippetOf(content, term) \o Dots,
              matched_term |-> term]
    ELSE NoHit

\* ---- the inputs of the step ----
\* the longest query
MaxQueryLen == 3

QueryChars == {"a", "B", " "}

RECURSIVE StringsUpTo(_, _)
StringsUpTo(S, n) ==
    IF n = 0 THEN {<< >>}
    ELSE LET shorter == StringsUpTo(S, n - 1)
         IN  shorter \cup {Append(t, ch) : t \in shorter, ch \in S}

\* the queries that pass `if not query`
Queries == {q \in StringsUpTo(QueryChars, MaxQueryLen) : CleanQuery(q) # << >>}

\* n characters that are in no query
Pad(n) == [i \in 1..n |-> "x"]

\* how much text the documents have before and after their core
Margins == {0, 1, SnippetContext - 1, SnippetContext, SnippetContext + 1}

Cores == { << >>, <<"z">>, <<"A">>, <<"a", "b">>, <<"b", "x", "A">>, <<"A", "b", "a">> }

Contents == {Pad(n) \o core \o Pad(m) : n \in Margins, m \in Margins, core \in Cores}

InitHit ==
    /\ hitContent \in Contents
    /\ hitQuery \in Queries
    /\ hitOut = NoDict

IdleHit ==
    /\ hitContent = << >>
    /\ hitQuery = << >>
    /\ hitOut = NoDict

\* lines 184-198 (207-221, 265-280, 311-326) on one document
HitStep ==
    /\ hitOut = NoDict
    /\ hitOut' = MatchAndSnippet(hitContent, QueryTerms(hitQuery))
    /\ UNCHANGED <<hitContent, hitQuery>>
    /\ UNCHANGED notHitVars

NextHit == HitStep

(***************************************************************************)
(* get_section.  The parsed page (soup) is the sequence of its elements in *)
(* document order; an element has a tag name and a text.                   *)
(***************************************************************************)
heading_tags ==
    << <<"h", "1">>, <<"h", "2">>, <<"h", "3">>, <<"h", "4">>, <<"h", "5">>, <<"h", "6">> >>

\* the most sections the not-found payload suggests
MaxSuggested == 15

\* soup.find_all(tag): the positions of the elements named tag, in
\* document order
FindAll(soup, tag) ==
    LET Positions == [i \in 1..Len(soup) |-> i]
        Named(i) == soup[i].name = tag
    IN  SelectSeq(Positions, Named)

\* the headings in the order the nested loops `for tag in heading_tags:
\* for heading in soup.find_all(tag)` visit them
RECURSIVE ScanFrom(_, _)
ScanFrom(soup, t) ==
    IF t > Len(heading_tags) THEN << >>
    ELSE FindAll(soup, heading_tags[t]) \o ScanFrom(soup, t + 1)

\* a variant: the headings in document order
ScanOrderOfDocument(soup) ==
    LET Positions == [i \in 1..Len(soup) |-> i]
        IsHeading(i) == \E t \in 1..Len(heading_tags) : soup[i].name = heading_tags[t]
    IN  SelectSeq(Positions, IsHeading)

ScanOrder(soup) == ScanFrom(soup, 1)

\* section_lower == heading_text or section_lower in heading_text
HeadingMatches(section_lower, heading) ==
    LET heading_text == Lower(heading.text)
    IN  section_lower = heading_text \/ Contains(heading_text, section_lower)

\* lines 402-411: the position of found_heading after the first loop, 0
\* for None
FirstPass(soup, section_lower) ==
    LET order == ScanOrder(soup)
        hits == {k \in 1..Len(order) : HeadingMatches(section_lower, soup[order[k]])}
    IN  IF hits = {} THEN 0 ELSE order[Min(hits)]

\* sum(1 for word in section_words if word in heading_text)
RECURSIVE CountIn(_, _)
CountIn(words, heading_text) ==
    IF words = << >> THEN 0
    ELSE (IF Contains(heading_text, Head(words)) THEN 1 ELSE 0)
         + CountIn(Tail(words), heading_text)

MatchScore(section_lower, heading) ==
    CountIn(SplitWords(section_lower), Lower(heading.text))

\* a variant: on a tie the last heading in scan order
SecondPassLastOnTie(soup, section_lower) ==
    LET order == ScanOrder(soup)
        Score(k) == MatchScore(section_lower, soup[order[k]])
        best == {k \in 1..Len(order) :
                    /\ Score(k) > 0
                    /\ \A j \in 1..Len(order) : Score(j) <= Score(k)}
    IN  IF best = {} THEN 0 ELSE order[Max(best)]

\* lines 414-431: the position of best_match when best_match_score > 0,
\* else 0
SecondPass(soup, section_lower) ==
    LET order == ScanOrder(soup)
        Score(k) == MatchScore(section_lower, soup[order[k]])
        best == {k \in 1..Len(order) :
                    /\ Score(k) > 0
                    /\ \A j \in 1..Len(order) : Score(j) <= Score(k)}
    IN  IF best = {} THEN 0 ELSE order[Min(best)]

\* all_sections[:15]
AvailableSections(soup) ==
    LET order == ScanOrder(soup)
        all_sections == [k \in 1..Len(order) |-> Strip(soup[order[k]].text)]
    IN  SubSeq(all_sections, 1, Min({Len(all_sections), MaxSuggested}))

\* lines 397-445 on the parsed page: the heading selected and the pass
\* that selected it, or the payload of line 441
FindHeading(soup, section) ==
    LET section_lower == Lower(section)
        first == FirstPass(soup, section_lower)
        second == SecondPass(soup, section_lower)
    IN  IF first # 0 THEN [outcome |-> "found", heading |-> first, pass |-> 1]
        ELSE IF second # 0 THEN [outcome |-> "found", heading |-> second, pass |-> 2]
        ELSE [outcome |-> "section not found",
              available_sections |-> AvailableSections(soup)]

\* ---- the tree of the page ----
\* A node is an element or a string between elements (name = NoStr); an
\* element that holds elements has them in inner.  A page is the sequence
\* of the children of its body, or of the div of class section,
\* markdown-body or content that encloses them all (container).  The
\* elements start on a line each, or all on one line (one_line).
Leaf(name, text) == [name |-> name, text |-> text, inner |-> << >>]

Str(text) == Leaf(NoStr, text)

Wrapper(inner) == [name |-> <<"s", "e", "c", "t", "i", "o", "n">>, text |-> << >>, inner |-> inner]

PageOf(children, container, one_line) ==
    [children |-> children, container |-> container, one_line |-> one_line]

RECURSIVE Concat(_)
Concat(strings) ==
    IF strings = << >> THEN << >> ELSE Head(strings) \o Concat(Tail(strings))

\* node.get_text()
GetText(node) ==
    IF node.inner = << >> THEN node.text
    ELSE Concat([j \in 1..Len(node.inner) |-> node.inner[j].text])

\* node.get_text(strip=True)
GetTextStripped(node) ==
    IF node.inner = << >> THEN Strip(node.text)
    ELSE Concat([j \in 1..Len(node.inner) |-> Strip(node.inner[j].text)])

\* the nodes of the page in document order: the soup that find_all
\* searches; top and sub tell where the node lies
RECURSIVE FlatFrom(_, _)
FlatFrom(children, i) ==
    IF i > Len(children) THEN << >>
    ELSE <<[name |-> children[i].name, text |-> GetText(children[i]),
            top |-> i, sub |-> 0]>>
         \o [j \in 1..Len(children[i].inner) |->
                [name |-> children[i].inner[j].name, text |-> children[i].inner[j].text,
                 top |-> i, sub |-> j]]
         \o FlatFrom(children, i + 1)

DocumentOrder(page) == FlatFrom(page.children, 1)

\* element.sourceline of the node at position k of the soup
SourceLine(page, k) == IF page.one_line THEN 1 ELSE k

Digits == <<"0", "1", "2", "3", "4", "5", "6", "7", "8", "9">>

\* int(ch) returns / raises ValueError
IsDigit(ch) == ch \in Range(Digits)

IntOf(ch) == (CHOOSE k \in 1..Len(Digits) : Digits[k] = ch) - 1

\* a variant: an element named h1 .. h6
LooksLikeHeadingByTag(node) == node.name \in Range(heading_tags)

\* `current.name and current.name[0] == 'h' and len(current.name) == 2`
LooksLikeHeading(node) ==
    node.name # NoStr /\ Len(node.name) = 2 /\ node.name[1] = "h"

\* a variant: the text of a pre element is kept out of content
CollectedWithoutCode(content, node) ==
    IF node.name = <<"p", "r", "e">> THEN content
    ELSE IF node.name # NoStr THEN Append(content, GetTextStripped(node))
    ELSE IF Strip(node.text) # << >> THEN Append(content, Strip(node.text))
    ELSE content

\* lines 462-465 and 489-492
Collected(content, node) ==
    IF node.name # NoStr THEN Append(content, GetTextStripped(node))
    ELSE IF Strip(node.text) # << >> THEN Append(content, Strip(node.text))
    ELSE content

\* lines 455-467 and 483-492: the walk over nodes from position i on; it
\* ends at the end of the nodes, at next_heading, or with the ValueError of
\* int()
RECURSIVE WalkFrom(_, _, _, _)
WalkFrom(nodes, i, heading_level, content) ==
    IF i > Len(nodes)
    THEN [content |-> content, next_heading |-> 0, raised |-> FALSE]
    ELSE IF LooksLikeHeading(nodes[i]) /\ ~IsDigit(nodes[i].name[2])
    THEN [content |-> content, next_heading |-> 0, raised |-> TRUE]
    ELSE IF LooksLikeHeading(nodes[i]) /\ IntOf(nodes[i].name[2]) <= heading_level
    THEN [content |-> content, next_heading |-> i, raised |-> FALSE]
    ELSE WalkFrom(nodes, i + 1, heading_level, Collected(content, nodes[i]))

\* a variant: the div is searched whatever the walk collected
RunsFallbackAlways(content) == TRUE

\* line 469: `if not content`
RunsFallback(content) == content = << >>

\* a variant: the code blocks up to the end of the page when there is no
\* next heading
CodeBoundToEnd(page, soup, next) ==
    IF next = 0 THEN SourceLine(page, Len(soup)) + 1 ELSE SourceLine(page, next)

\* line 511: the line that the code blocks must lie before, 0 when
\* next_heading is None and no code block is taken
CodeBound(page, soup, next) == IF next = 0 THEN 0 ELSE SourceLine(page, next)

\* lines 447-519: from found_heading to the payload
Extract(page, soup, found) ==
    LET heading == soup[found.heading]
        siblings == IF heading.sub = 0 THEN page.children
                    ELSE page.children[heading.top].inner
        heading_level == IntOf(heading.name[2])
        walk == WalkFrom(siblings, (IF heading.sub = 0 THEN heading.top ELSE heading.sub) + 1,
                         heading_level, << >>)
        \* `child == found_heading` compares the name and the contents
        same == {i \in 1..Len(page.children) :
                    /\ page.children[i].name = heading.name
                    /\ page.children[i].inner = << >>
                    /\ page.children[i].text = heading.text}
        again == IF ~walk.raised /\ RunsFallback(walk.content) /\ page.container
                    /\ same # {}
                 THEN WalkFrom(page.children, Min(same) + 1, heading_level, walk.content)
                 ELSE walk
        next == IF walk.next_heading = 0 THEN 0
                ELSE CHOOSE k \in 1..Len(soup) :
                         /\ soup[k].top = (IF heading.sub = 0 THEN walk.next_heading
                                           ELSE heading.top)
                         /\ soup[k].sub = (IF heading.sub = 0 THEN 0 ELSE walk.next_heading)
        IsCode(k) == /\ soup[k].name = <<"p", "r", "e">>
                     /\ SourceLine(page, k) > SourceLine(page, found.heading)
                     /\ SourceLine(page, k) < CodeBound(page, soup, next)
        Positions == [k \in 1..Len(soup) |-> k]
        code_blocks == SelectSeq(Positions, IsCode)
    IN  IF walk.raised \/ again.raised
        THEN [outcome |-> "Error retrieving section"]
        ELSE IF again.content = << >>
        THEN [outcome |-> "found but empty", heading |-> found.heading,
              pass |-> found.pass, section |-> heading.text]
        ELSE [outcome |-> "found", heading |-> found.heading, pass |-> found.pass,
              section |-> heading.text, content |-> again.content,
              code_examples |-> [k \in 1..Len(code_blocks) |-> soup[code_blocks[k]].text]]

\* get_section
GetSection(page, section, resp) ==
    IF page = << >> \/ section = << >>
    THEN [outcome |-> "Please provide both a page path and section name."]
    ELSE IF resp.status = 404
    THEN [outcome |-> "Documentation page not found"]
    ELSE IF resp.status # 200
    THEN [outcome |-> "Error retrieving section"]
    ELSE IF FindHeading(DocumentOrder(resp.page), section).outcome # "found"
    THEN FindHeading(DocumentOrder(resp.page), section)
    ELSE Extract(resp.page, DocumentOrder(resp.page),
                 FindHeading(DocumentOrder(resp.page), section))

\* ---- the inputs of get_section ----
\* the most elements a page has when every choice of elements is tried
MaxElements == 3

ElementNames == { <<"h", "1">>, <<"h", "2">>, <<"h", "3">>, <<"p">> }

ElementTexts == { <<"S", "i">>, <<"s", "i", " ", "a">>, <<"B">> }

Elements == [name : ElementNames, text : ElementTexts, inner : {<< >>}]

SectionNames == { << >>, <<" ">>, <<"s", "i">>, <<"S", "I">>, <<"a", " ", "b">>, <<"z">> }

PageArgs == { << >>, <<"a">> }

\* a page with more headings than the not-found payload suggests
ManyHeadings == [i \in 1..(MaxSuggested + 1) |-> Leaf(<<"h", "2">>, <<"B">>)]

\* the most nodes a page has when every choice of nodes is tried
MaxNodes == 4

H1(text) == Leaf(<<"h", "1">>, text)

H2(text) == Leaf(<<"h", "2">>, text)

P(text) == Leaf(<<"p">>, text)

Pre(text) == Leaf(<<"p", "r", "e">>, text)

Hr == Leaf(<<"h", "r">>, << >>)

Nodes == { H1(<<"a">>), H2(<<"b">>), P(<<"x">>), Pre(<<"c">>), Hr, Str(<<"\n">>) }

\* H1, H2, H3 of the level of H2, H4 of the level of H1, prose after each
Outline ==
    << H1(<<"a">>), P(<<"1">>), H2(<<"b">>), P(<<"2">>), H2(<<"d">>), P(<<"3">>),
       H1(<<"e">>), P(<<"4">>) >>

\* pages in which the heading lies in a section element of its own, with
\* and without a heading like it among the children of the div
Nested ==
    { <<Wrapper(<<H2(<<"b">>)>>), H2(<<"b">>), P(<<"x">>)>>,
      <<Wrapper(<<H2(<<"b">>)>>), P(<<"x">>)>>,
      <<Wrapper(<<H2(<<"b">>)>>), H2(<<"b">>), Hr>>,
      <<Wrapper(<<H2(<<"b">>), Pre(<<"c">>), H2(<<"a">>)>>), P(<<"x">>)>> }

ExtractionPages ==
    {PageOf(children, container, FALSE) :
        children \in SeqsUpTo(Nodes, MaxNodes) \cup Nested \cup {Outline},
        container \in BOOLEAN}
    \cup {PageOf(<<H2(<<"b">>), Pre(<<"c">>), P(<<"x">>), H2(<<"a">>)>>, FALSE, TRUE)}

ExtractionSections == { <<"a">>, <<"b">>, <<"a", " ", "b">> }

InitSection ==
    /\ \/ /\ secPage = <<"a">>
          /\ secSection \in SectionNames
          /\ secResponse \in {Ok(PageOf(soup, FALSE, FALSE)) :
                                  soup \in SeqsUpTo(Elements, MaxElements)
                                           \cup {ManyHeadings}}
       \/ /\ secPage = <<"a">>
          /\ secSection \in ExtractionSections
          /\ secResponse \in {Ok(page) : page \in ExtractionPages}
       \/ /\ secPage \in PageArgs
          /\ secSection \in SectionNames
          /\ secResponse \in {NotFound, Raises}
    /\ secOut = NoDict

IdleSection ==
    /\ secPage = << >>
    /\ secSection = << >>
    /\ secResponse = NoDict
    /\ secOut = NoDict

SectionCall ==
    /\ secOut = NoDict
    /\ secOut' = GetSection(secPage, secSection, secResponse)
    /\ UNCHANGED <<secPage, secSection, secResponse>>
    /\ UNCHANGED notSecVars

NextSection == SectionCall

(***************************************************************************)
(* The search tools.  One run is one call of one tool against a site that  *)
(* answers every request the same way.  A tool returns either a plain      *)
(* string (Text) or a JSON document (Json).  The rows of a listing page    *)
(* are its div.Box-row elements, the link of a row carries data-pjax.      *)
(***************************************************************************)
\* the locals of a tool that is not running, and of one that has just been
\* called: its argument is its only local
Idle == [pc |-> "idle"]

Called(argument) == [pc |-> "called", query |-> argument]

DOCS_URL == <<"h", "t", "t", "p", "s", ":", "/", "/", "o", "p", "e", "n", "a", "i", ".", "g", "i", "t", "h", "u", "b", ".", "i", "o", "/", "o", "p", "e", "n", "a", "i", "-", "a", "g", "e", "n", "t", "s", "-", "p", "y", "t", "h", "o", "n", "/">>

Text(msg) == [text |-> msg]

Json(value) == [json |-> value]

\* one request sent to the documentation site, to raw.githubusercontent.com
\* or to github.com
\* json.loads(value) succeeds / raises JSONDecodeError
IsJson(value) == "json" \in DOMAIN value

IsText(value) == "text" \in DOMAIN value

Request(host, at) == [host |-> host, at |-> at]

\* urljoin(DOCS_URL, ref) for the references of the model: "" and "." name
\* DOCS_URL itself, a page name the page below it
UrlJoin(base, ref) == IF ref = << >> \/ ref = <<".">> THEN base ELSE base \o ref

\* what the site answers for the page at url / the raw file at path / the
\* listing of dir_path; all that the site does not hold is not found
DocAnswer(url) == IF url \in DOMAIN site.docs THEN site.docs[url] ELSE NotFound

FileAnswer(path) == IF path \in DOMAIN site.files THEN site.files[path] ELSE NotFound

DirAnswer(dir_path) ==
    IF dir_path \in DOMAIN site.dirs THEN site.dirs[dir_path]
    ELSE IF SplitLast(dir_path, "/") \in DOMAIN site.below
    THEN site.below[SplitLast(dir_path, "/")]
    ELSE NotFound

\* fetch_doc_page(url) and fetch_github_file(path) as the callers see them:
\* whether the call returned or raised, the content, the cache and the
\* requests afterwards.  The page of an answer is the content extracted
\* from it.
FetchThrough(cache, key, answer, request) ==
    IF CacheHit(cache, key)
    THEN [ok |-> TRUE, content |-> cache[key], cache |-> cache, net |-> net]
    ELSE [ok |-> answer.status = 200,
          content |-> IF answer.status = 200 THEN answer.page ELSE NoDict,
          cache |-> CacheAfterResponse(cache, key, answer.status = 200,
                                       IF answer.status = 200 THEN answer.page ELSE NoDict),
          net |-> Append(net, request)]

FetchDocPage(url) ==
    FetchThrough(doc_cache, url, DocAnswer(url),
                 Request("docs", IF StartsWith(url, <<"h", "t", "t", "p">>)
                                 THEN url ELSE UrlJoin(DOCS_URL, url)))

FetchGithubFile(path) ==
    FetchThrough(github_cache, path, FileAnswer(path), Request("raw", path))

(***************************************************************************)
(* search_docs.  The content of a page is [text, hrefs]: the text that     *)
(* fetch_doc_page extracted and, in document order, the href of every      *)
(* <a href> that BeautifulSoup finds when it parses that text.             *)
(***************************************************************************)
\* the most linked pages search_docs looks at
MaxLinkedPages == 20

SkippedPrefixes ==
    { <<"h", "t", "t", "p", ":", "/", "/">>, <<"h", "t", "t", "p", "s", ":", "/", "/">>, <<"#">>, <<"j", "a", "v", "a", "s", "c", "r", "i", "p", "t", ":">> }

\* lines 177-181
LocalLinks(hrefs) ==
    LET Local(href) == \A p \in SkippedPrefixes : ~StartsWith(href, p)
    IN  SelectSeq(hrefs, Local)

\* the results with the result of the match-and-snippet step on one
\* document appended, when it has one
WithHit(results, doc, content_text, query_terms) ==
    LET hit == MatchAndSnippet(content_text, query_terms)
    IN  IF hit.hit
        THEN Append(results, [doc |-> doc, snippet |-> hit.snippet,
                              matched_term |-> hit.matched_term])
        ELSE results

\* lines 159-198: the query check, the main page, its links
SearchDocsCall ==
    /\ sd.pc = "called"
    /\ LET query == CleanQuery(sd.query)
           got == FetchDocPage(DOCS_URL)
       IN  IF query = << >>
           THEN /\ sd' = [pc |-> "returned", out |-> Text("Please provide a search query.")]
                /\ UNCHANGED <<doc_cache, net>>
           ELSE /\ doc_cache' = got.cache
                /\ net' = got.net
                /\ sd' = IF ~got.ok
                         THEN [pc |-> "returned",
                               out |-> Text("Error searching documentation")]
                         ELSE [pc |-> "links",
                               query_terms |-> SplitWords(query),
                               links |-> SubSeq(LocalLinks(got.content.hrefs), 1,
                                                Min({Len(LocalLinks(got.content.hrefs)),
                                                     MaxLinkedPages})),
                               results |-> WithHit(<< >>, DOCS_URL, got.content.text,
                                                   SplitWords(query))]
    /\ UNCHANGED <<github_cache, tool, arg, site, sg, sf, gc, ga>>
    /\ UNCHANGED notSearchVars

\* a variant: a page that cannot be fetched ends the loop over the links
AfterFailedPageStops(locals) == [locals EXCEPT !.links = << >>]

\* lines 222-223: `except Exception as e: continue`
AfterFailedPage(locals) == [locals EXCEPT !.links = Tail(@)]

\* lines 201-223: one iteration of `for link in links[:20]`
SearchDocsLink ==
    /\ sd.pc = "links"
    /\ sd.links # << >>
    /\ LET page_url == UrlJoin(DOCS_URL, Head(sd.links))
           got == FetchDocPage(page_url)
       IN  /\ doc_cache' = got.cache
           /\ net' = got.net
           /\ sd' = IF got.ok
                    THEN [sd EXCEPT !.links = Tail(@),
                                    !.results = WithHit(@, page_url, got.content.text,
                                                        sd.query_terms)]
                    ELSE AfterFailedPage(sd)
    /\ UNCHANGED <<github_cache, tool, arg, site, sg, sf, gc, ga>>
    /\ UNCHANGED notSearchVars

\* lines 225-228
SearchDocsReturn ==
    /\ sd.pc = "links"
    /\ sd.links = << >>
    /\ sd' = [pc |-> "returned",
              query_terms |-> sd.query_terms,
              out |-> IF sd.results = << >>
                      THEN Text("No results found for your query")
                      ELSE Json(sd.results)]
    /\ UNCHANGED <<doc_cache, github_cache, tool, arg, site, net, sg, sf, gc, ga>>
    /\ UNCHANGED notSearchVars

(***************************************************************************)
(* search_github                                                           *)
(***************************************************************************)
Openai == <<"o", "p", "e", "n", "a", "i">>

SrcAgents == Join(Src, Agents)

DotPy == <<".", "p", "y">>

DotMd == <<".", "m", "d">>

\* key_dirs of search_github (line 335)
search_github_key_dirs == <<Openai, Examples, Docs, Src, SrcAgents, Tests>>

\* s.endswith(suffix)
EndsWith(s, suffix) ==
    Len(s) >= Len(suffix) /\ SubSeq(s, Len(s) - Len(suffix) + 1, Len(s)) = suffix

\* soup.select("div.Box-row")
BoxRows(page) == FileItems(page)

\* an entry of search_errors
Failure(what, at) == [what |-> what, at |-> at]

\* lines 235-253: the query check and get_github_structure()
SearchGithubCall ==
    /\ sg.pc = "called"
    /\ LET query == CleanQuery(sg.query)
           structure == GetGithubStructure(site.repo_root)
           failed == "error" \in DOMAIN structure
       IN  IF query = << >>
           THEN /\ sg' = [pc |-> "returned", out |-> Text("Please provide a search query.")]
                /\ UNCHANGED net
           ELSE /\ net' = Append(net, Request("github", RootPath))
                /\ sg' = [pc |-> "root files",
                          query |-> query,
                          query_terms |-> SplitWords(query),
                          files |-> IF failed THEN << >> ELSE structure.files,
                          results |-> << >>,
                          search_errors |->
                              IF failed
                              THEN <<Failure("Error getting repository structure", RootPath)>>
                              ELSE << >>,
                          tasks |-> << >>]
    /\ UNCHANGED <<doc_cache, github_cache, tool, arg, site, sd, sf, gc, ga>>
    /\ UNCHANGED notSearchVars

\* lines 256-282: one iteration of `for file in structure.get("files", [])`
SearchGithubRootFile ==
    /\ sg.pc = "root files"
    /\ sg.files # << >>
    /\ LET file == Head(sg.files)
           got == FetchGithubFile(file.path)
       IN  IF file.path = << >>
           THEN /\ sg' = [sg EXCEPT !.files = Tail(@)]
                /\ UNCHANGED <<github_cache, net>>
           ELSE /\ github_cache' = got.cache
                /\ net' = got.net
                /\ sg' = IF got.ok
                         THEN [sg EXCEPT !.files = Tail(@),
                                         !.results = WithHit(@, file.path, got.content,
                                                             sg.query_terms)]
                         ELSE [sg EXCEPT !.files = Tail(@),
                                         !.search_errors =
                                             Append(@, Failure("Error checking root file",
                                                               file.name))]
    /\ UNCHANGED <<doc_cache, tool, arg, site, sd, sf, gc, ga>>
    /\ UNCHANGED notSearchVars

\* lines 334-342: the six search_directory coroutines are handed to
\* asyncio.gather; each runs up to its request
SearchGithubFanOut ==
    /\ sg.pc = "root files"
    /\ sg.files = << >>
    /\ net' = net \o [k \in 1..Len(search_github_key_dirs) |->
                          Request("github", search_github_key_dirs[k])]
    /\ sg' = [pc |-> "gather",
              query |-> sg.query,
              query_terms |-> sg.query_terms,
              results |-> sg.results,
              search_errors |-> sg.search_errors,
              tasks |-> [k \in 1..Len(search_github_key_dirs) |->
                            [pc |-> "requested", dir_results |-> << >>]],
              overtook |-> FALSE]
    /\ UNCHANGED <<doc_cache, github_cache, tool, arg, site, sd, sf, gc, ga>>
    /\ UNCHANGED notSearchVars

\* a variant: a failed listing ends every search_directory coroutine
AfterFailedListingCancelsAll(locals, k, failure) ==
    [locals EXCEPT !.tasks = [j \in 1..Len(locals.tasks) |->
                                 [pc |-> "done", dir_results |-> << >>]],
                   !.search_errors = Append(@, failure)]

\* lines 290-292 and 330-332: the failure is appended to search_errors and
\* search_directory returns []
AfterFailedListing(locals, k, failure) ==
    [locals EXCEPT !.tasks[k] = [pc |-> "done", dir_results |-> << >>],
                   !.search_errors = Append(@, failure)]

\* an observation of the run: whether a search_directory coroutine has
\* finished while one for an earlier key directory was still running
NotingOrder(before, after) ==
    [after EXCEPT !.overtook =
        \/ @
        \/ \E k \in 1..Len(after.tasks) :
              /\ after.tasks[k].pc = "done"
              /\ before.tasks[k].pc # "done"
              /\ \E j \in 1..(k - 1) : after.tasks[j].pc # "done"]

\* lines 289-299: the listing request of search_directory(dir_path) is
\* answered
SearchDirectoryRespond(k) ==
    /\ sg.pc = "gather"
    /\ sg.tasks[k].pc = "requested"
    /\ LET dir_path == search_github_key_dirs[k]
           answer == DirAnswer(dir_path)
       IN  sg' = NotingOrder(sg,
             IF answer.status = 404
             THEN AfterFailedListing(sg, k, Failure("Directory not found", dir_path))
             ELSE IF answer.status # 200
             THEN AfterFailedListing(sg, k, Failure("Error searching directory", dir_path))
             ELSE IF BoxRows(answer.page) = << >>
             THEN [sg EXCEPT !.tasks[k] = [pc |-> "done", dir_results |-> << >>]]
             ELSE [sg EXCEPT !.tasks[k] = [pc |-> "files", dir_results |-> << >>,
                                           file_items |-> BoxRows(answer.page)]])
    /\ UNCHANGED <<doc_cache, github_cache, tool, arg, site, net, sd, sf, gc, ga>>
    /\ UNCHANGED notSearchVars

\* lines 300-328: one iteration of `for item in file_items`
SearchDirectoryFile(k) ==
    /\ sg.pc = "gather"
    /\ sg.tasks[k].pc = "files"
    /\ LET task == sg.tasks[k]
           item == Head(task.file_items)
           file_path == IF item.href = NoStr THEN << >>
                        ELSE ReplaceAll(item.href, RepoBlobPrefix, << >>)
           wanted == /\ item.href # NoStr
                     /\ EndsWith(file_path, DotPy) \/ EndsWith(file_path, DotMd)
           got == FetchGithubFile(file_path)
           rest == Tail(task.file_items)
           after == [task EXCEPT !.file_items = rest,
                                 !.pc = IF rest = << >> THEN "done" ELSE "files"]
       IN  IF ~wanted
           THEN /\ sg' = NotingOrder(sg, [sg EXCEPT !.tasks[k] = after])
                /\ UNCHANGED <<github_cache, net>>
           ELSE /\ github_cache' = got.cache
                /\ net' = got.net
                /\ sg' = NotingOrder(sg,
                         IF got.ok
                         THEN [sg EXCEPT !.tasks[k] =
                                  [after EXCEPT !.dir_results =
                                      WithHit(@, file_path, got.content, sg.query_terms)]]
                         ELSE [sg EXCEPT !.tasks[k] = after,
                                         !.search_errors =
                                             Append(@, Failure("Error processing file",
                                                               file_path))])
    /\ UNCHANGED <<doc_cache, tool, arg, site, sd, sf, gc, ga>>
    /\ UNCHANGED notSearchVars

\* a variant: the key directories from the last to the first
RECURSIVE ExtendAllReversed(_, _)
ExtendAllReversed(results, dir_results_list) ==
    IF dir_results_list = << >> THEN results
    ELSE ExtendAllReversed(results, Tail(dir_results_list)) \o Head(dir_results_list).dir_results

\* lines 345-349: `for result in dir_results_list: results.extend(result)`
RECURSIVE ExtendAll(_, _)
ExtendAll(results, dir_results_list) ==
    IF dir_results_list = << >> THEN results
    ELSE ExtendAll(results \o Head(dir_results_list).dir_results, Tail(dir_results_list))

\* lines 352-357; an empty errors list is written as null
DebugInfo(query, query_terms, search_errors) ==
    [search_query |-> query,
     search_terms |-> query_terms,
     directories_searched |-> search_github_key_dirs,
     errors |-> search_errors]

\* whether every coroutine handed to gather has finished
AllFinished(coroutines) ==
    \A k \in 1..Len(coroutines) : coroutines[k].pc = "done"

\* lines 342-370: gather returns, the results are merged and returned (no
\* search_directory coroutine raises: each catches every exception)
SearchGithubJoin ==
    /\ sg.pc = "gather"
    /\ AllFinished(sg.tasks)
    /\ LET results == ExtendAll(sg.results, sg.tasks)
           debug_info == DebugInfo(sg.query, sg.query_terms, sg.search_errors)
       IN  sg' = [pc |-> "returned",
                  query_terms |-> sg.query_terms,
                  tasks |-> sg.tasks,
                  root_results |-> sg.results,
                  overtook |-> sg.overtook,
                  out |-> IF results = << >>
                          THEN Json([error |-> "No results found in the GitHub repository",
                                     debug_info |-> debug_info])
                          ELSE Json([results |-> results, debug_info |-> debug_info])]
    /\ UNCHANGED <<doc_cache, github_cache, tool, arg, site, net, sd, sf, gc, ga>>
    /\ UNCHANGED notSearchVars

(***************************************************************************)
(* search_files.  A coroutine search_directory(d) searches d, then every   *)
(* sub-directory it found, one after the other and each with all that lies *)
(* below it; `stack` holds the directories the coroutine has still to      *)
(* search, in that order, and the listing of the first one is requested.   *)
(***************************************************************************)
Test == <<"t", "e", "s", "t">>

\* key_dirs of search_files (line 622)
search_files_key_dirs == <<Examples, Src, Docs, Test, Tests>>

\* direct_paths (lines 639-645)
direct_paths == <<Examples, SrcAgents, Docs, Test, Tests>>

\* the longest path, in segments, that search_directory is called with
\* from a listing
MaxSegments == 3

\* len(path.split('/'))
Segments(path) == Cardinality({i \in 1..Len(path) : path[i] = "/"}) + 1

\* a variant: the sub-directory is looked up from the root of the
\* repository
SubdirPathFromRoot(dir_path, name) == name

\* line 600: subdir_path = f"{dir_path}/{name}"
SubdirPath(dir_path, name) == Join(dir_path, name)

\* item.select_one("svg") found an element
HasSvg(e) == IF "svg" \in DOMAIN e THEN e.svg ELSE e.label # NoStr

\* lines 587-612: one iteration of `for item in items`; acc holds subdirs,
\* matches and search_errors
SearchFilesItem(acc, e, dir_path, filename_pattern) ==
    IF e.href = NoStr THEN acc
    ELSE IF ~HasSvg(e)
    THEN [acc EXCEPT !.search_errors =
                         Append(@, Failure("Error processing item in", dir_path))]
    ELSE IF e.label # NoStr /\ e.label # << >> /\ Contains(Lower(e.label), StrDir)
    THEN [acc EXCEPT !.subdirs = Append(@, SubdirPath(dir_path, e.text))]
    ELSE IF Contains(Lower(e.text), filename_pattern)
    THEN [acc EXCEPT !.matches = Append(@, [name |-> e.text,
                                            path |-> Join(dir_path, e.text)])]
    ELSE acc

RECURSIVE SearchFilesItems(_, _, _, _)
SearchFilesItems(acc, items, dir_path, filename_pattern) ==
    IF items = << >> THEN acc
    ELSE SearchFilesItems(SearchFilesItem(acc, Head(items), dir_path, filename_pattern),
                          Tail(items), dir_path, filename_pattern)

\* lines 554-566: the root files whose lower-cased name holds the pattern
RECURSIVE RootMatches(_, _)
RootMatches(files, filename_pattern) ==
    IF files = << >> THEN << >>
    ELSE (IF Contains(Lower(Head(files).name), filename_pattern)
          THEN <<[name |-> Lower(Head(files).name), path |-> Head(files).path]>>
          ELSE << >>)
         \o RootMatches(Tail(files), filename_pattern)

\* lines 526-635: the pattern check, get_github_structure(), the root
\* files, and the five search_directory coroutines handed to gather
SearchFilesCall ==
    /\ sf.pc = "called"
    /\ LET filename_pattern == Lower(Strip(sf.query))
           structure == GetGithubStructure(site.repo_root)
           failed == "error" \in DOMAIN structure
       IN  IF filename_pattern = << >>
           THEN /\ sf' = [pc |-> "returned",
                          out |-> Text("Please provide a filename pattern to search for.")]
                /\ UNCHANGED net
           ELSE /\ net' = Append(net, Request("github", RootPath))
                          \o [k \in 1..Len(search_files_key_dirs) |->
                                 Request("github", search_files_key_dirs[k])]
                /\ sf' = [pc |-> "gather",
                          filename_pattern |-> filename_pattern,
                          matches |-> IF failed THEN << >>
                                      ELSE RootMatches(structure.files, filename_pattern),
                          search_errors |->
                              IF failed
                              THEN <<Failure("Error getting repository structure", RootPath)>>
                              ELSE << >>,
                          tasks |-> [k \in 1..Len(search_files_key_dirs) |->
                                        [stack |-> <<search_files_key_dirs[k]>>]]]
    /\ UNCHANGED <<doc_cache, github_cache, tool, arg, site, sd, sg, gc, ga>>
    /\ UNCHANGED notSearchVars

\* a variant: no cap on the depth
DeepEnoughNever(subdir) == TRUE

\* line 616: `if len(subdir.split('/')) <= 3`
DeepEnough(subdir) == Segments(subdir) <= MaxSegments

\* lines 572-619: the listing request of the search_directory call at the
\* head of the stack is answered; the call searches the listing and goes
\* on to its first sub-directory, or returns
SearchFilesRespond(k) ==
    /\ sf.pc \in {"gather", "retry"}
    /\ k \in 1..Len(sf.tasks)
    /\ sf.tasks[k].stack # << >>
    /\ \E dir_path \in {Head(sf.tasks[k].stack)} :
       \E answer \in {DirAnswer(dir_path)} :
       \E acc \in {SearchFilesItems([subdirs |-> << >>, matches |-> sf.matches,
                                    search_errors |-> sf.search_errors],
                                   IF answer.status = 200 THEN BoxRows(answer.page)
                                   ELSE << >>,
                                   dir_path, sf.filename_pattern)} :
       \E stack \in {IF answer.status = 200
                    THEN SelectSeq(acc.subdirs, DeepEnough) \o Tail(sf.tasks[k].stack)
                    ELSE Tail(sf.tasks[k].stack)} :
           /\ sf' = [sf EXCEPT
                       !.tasks[k].stack = stack,
                       !.matches = acc.matches,
                       !.search_errors =
                           IF answer.status = 404
                           THEN Append(@, Failure("Directory not found", dir_path))
                           ELSE IF answer.status # 200
                           THEN Append(@, Failure("Error searching directory", dir_path))
                           ELSE acc.search_errors]
           /\ net' = IF stack = << >> THEN net
                     ELSE Append(net, Request("github", Head(stack)))
    /\ UNCHANGED <<doc_cache, github_cache, tool, arg, site, sd, sg, gc, ga>>
    /\ UNCHANGED notSearchVars

\* every search_directory call made so far has returned
AllSearched == \A k \in 1..Len(sf.tasks) : sf.tasks[k].stack = << >>

\* lines 638-651: nothing matched, so the direct paths are searched one
\* after the other
SearchFilesRetry ==
    /\ sf.pc = "gather"
    /\ AllSearched
    /\ sf.matches = << >>
    /\ sf' = [sf EXCEPT !.pc = "retry", !.tasks = Append(@, [stack |-> direct_paths])]
    /\ net' = Append(net, Request("github", Head(direct_paths)))
    /\ UNCHANGED <<doc_cache, github_cache, tool, arg, site, sd, sg, gc, ga>>
    /\ UNCHANGED notSearchVars

\* lines 653-678
SearchFilesReturn ==
    /\ sf.pc = "retry" \/ (sf.pc = "gather" /\ sf.matches # << >>)
    /\ AllSearched
    /\ LET debug_info == [search_pattern |-> sf.filename_pattern,
                          directories_searched |-> search_files_key_dirs,
                          errors |-> sf.search_errors]
       IN  sf' = [pc |-> "returned",
                  filename_pattern |-> sf.filename_pattern,
                  out |-> IF sf.matches = << >>
                          THEN Json([error |-> "No files found matching",
                                     debug_info |-> debug_info])
                          ELSE Json([matches |-> sf.matches, debug_info |-> debug_info])]
    /\ UNCHANGED <<doc_cache, github_cache, tool, arg, site, net, sd, sg, gc, ga>>
    /\ UNCHANGED notSearchVars

(***************************************************************************)
(* get_code_examples.  The function is sequential; `todo` holds, in order, *)
(* what its loops have still to do: the terms to hand to search_files, the *)
(* files to fetch and the directories to list.  An example keeps its path  *)
(* and matched_by.                                                         *)
(***************************************************************************)
\* the shortest term handed to search_files
MinTermLen == 3

DotIpynb == <<".", "i", "p", "y", "n", "b">>

Handoff == <<"h", "a", "n", "d", "o", "f", "f">>

ExamplesDir == Examples \o Slash

Item(op, at, name, rule) == [op |-> op, at |-> at, name |-> name, rule |-> rule]

\* lines 700-701
LongTerms(topic_terms) ==
    LET Long(term) == Len(term) >= MinTermLen
    IN  SelectSeq(topic_terms, Long)

\* lines 725-732
common_example_files(topic) ==
    << ExamplesDir \o topic \o DotPy,
       ExamplesDir \o topic \o <<"_", "e", "x", "a", "m", "p", "l", "e", ".", "p", "y">>,
       ExamplesDir \o ReplaceAll(topic, <<"-">>, <<"_">>) \o DotPy,
       ExamplesDir \o ReplaceAll(topic, <<"_">>, <<"-">>) \o DotPy,
       Join(SrcAgents, ExamplesDir) \o topic \o DotPy,
       Join(Docs, ExamplesDir) \o topic \o DotPy >>

\* line 796
additional_example_dirs == <<Join(SrcAgents, Examples), Join(Docs, Examples), Tests>>

\* lines 894-899
specific_handoff_files ==
    << Join(Examples, <<"a", "g", "e", "n", "t", "_", "p", "a", "t", "t", "e", "r", "n", "s", "/", "a", "g", "e", "n", "t", "s", "_", "w", "i", "t", "h", "_", "h", "a", "n", "d", "o", "f", "f", "s", ".", "p", "y">>),
       Join(Examples, HandoffsPy),
       Join(SrcAgents, HandoffsPy),
       Join(Examples, <<"a", "g", "e", "n", "t", "_", "p", "a", "t", "t", "e", "r", "n", "s", "/", "t", "r", "i", "a", "g", "e", ".", "p", "y">>) >>

\* the work of a call in the order of the code: lines 700, 734, 750, 797,
\* 856 and 893-901
WorkOf(topic) ==
    LET Term(term) == Item("term", term, << >>, "filename contains term")
        Direct(path) == Item("fetch", path, << >>, "direct path match")
        Dir(dir_path) == Item("list", dir_path, << >>, "additional")
        HandoffFile(path) == Item("fetch", path, << >>, "direct handoff file match")
    IN  [k \in 1..Len(LongTerms(SplitWords(topic))) |-> Term(LongTerms(SplitWords(topic))[k])]
        \o [k \in 1..Len(common_example_files(topic)) |-> Direct(common_example_files(topic)[k])]
        \o <<Item("list", Examples, << >>, "examples")>>
        \o [k \in 1..Len(additional_example_dirs) |-> Dir(additional_example_dirs[k])]
        \o <<Item("list", SrcAgents, << >>, "core")>>
        \o (IF Contains(Lower(topic), Handoff)
            THEN [k \in 1..Len(specific_handoff_files) |-> HandoffFile(specific_handoff_files[k])]
            ELSE << >>)

\* lines 684-695
GetCodeExamplesCall ==
    /\ gc.pc = "called"
    /\ LET topic == Lower(Strip(gc.query))
       IN  gc' = IF topic = << >>
                 THEN [pc |-> "returned",
                       out |-> Text("Please provide a topic to search for code examples.")]
                 ELSE [pc |-> "running", topic |-> topic,
                       topic_terms |-> SplitWords(topic), examples |-> << >>,
                       search_errors |-> << >>, todo |-> WorkOf(topic)]
    /\ UNCHANGED <<doc_cache, github_cache, tool, arg, site, net, sd, sg, sf, ga>>
    /\ UNCHANGED notSearchVars

\* line 702: `await search_files(term)`
GetCodeExamplesSearchFiles ==
    /\ gc.pc = "running"
    /\ gc.todo # << >>
    /\ Head(gc.todo).op = "term"
    /\ sf' = Called(Head(gc.todo).at)
    /\ gc' = [gc EXCEPT !.pc = "awaiting", !.todo = Tail(@)]
    /\ UNCHANGED <<doc_cache, github_cache, tool, arg, site, net, sd, sg, ga>>
    /\ UNCHANGED notSearchVars

\* lines 703-720: search_files has returned
GetCodeExamplesMatches ==
    /\ gc.pc = "awaiting"
    /\ sf.pc = "returned"
    /\ LET matches == IF IsJson(sf.out) /\ "matches" \in DOMAIN sf.out.json
                      THEN sf.out.json.matches ELSE << >>
           Match(k) == Item("fetch", matches[k].path, << >>, "filename contains term")
       IN  gc' = [gc EXCEPT
                     !.pc = "running",
                     !.todo = [k \in 1..Len(matches) |-> Match(k)] \o @,
                     !.search_errors =
                         IF IsText(sf.out)
                         THEN Append(@, Failure("Error parsing search_files result",
                                                sf.filename_pattern))
                         ELSE @]
    /\ sf' = Idle
    /\ UNCHANGED <<doc_cache, github_cache, tool, arg, site, net, sd, sg, ga>>
    /\ UNCHANGED notSearchVars

\* path.endswith(suffixes)
EndsWithAny(path, suffixes) == \E suffix \in suffixes : EndsWith(path, suffix)

AlreadyAdded(examples, path) == \E k \in 1..Len(examples) : examples[k].path = path

\* whether the loop the item comes from calls fetch_github_file for it
\* (lines 708, 736, 768 and 779, 819, 871)
IsFetched(item, examples) ==
    CASE item.rule = "filename contains term" ->
             EndsWithAny(item.at, {DotPy, DotMd, DotIpynb}) /\ ~AlreadyAdded(examples, item.at)
      [] item.rule \in {"direct path match", "direct handoff file match"} -> TRUE
      [] item.rule = "core" -> EndsWith(item.at, DotPy)
      [] OTHER -> EndsWithAny(item.at, {DotPy, DotMd})

\* matched_by of the file, or "" when the loop does not take it
MatchedBy(item, content, topic_terms) ==
    CASE item.rule \in {"filename contains term", "direct path match",
                        "direct handoff file match"} -> item.rule
      [] item.rule = "core" ->
             IF AnyTermIn(content, topic_terms)
             THEN "content match in core source file" ELSE ""
      [] OTHER ->
             IF \E k \in 1..Len(topic_terms) : Contains(item.name, topic_terms[k])
             THEN "filename contains topic term"
             ELSE IF AnyTermIn(content, topic_terms)
             THEN "content contains topic term" ELSE ""

\* the loops that pass over a file that cannot be fetched (lines 744, 911)
IsSilent(item) == item.rule \in {"direct path match", "direct handoff file match"}

\* one iteration of a loop over files: lines 706-718, 734-745, 758-791,
\* 810-849, 864-888, 901-912
GetCodeExamplesFetch ==
    /\ gc.pc = "running"
    /\ gc.todo # << >>
    /\ Head(gc.todo).op = "fetch"
    /\ LET item == Head(gc.todo)
           got == FetchGithubFile(item.at)
           matched_by == MatchedBy(item, got.content, gc.topic_terms)
       IN  IF ~IsFetched(item, gc.examples)
           THEN /\ gc' = [gc EXCEPT !.todo = Tail(@)]
                /\ UNCHANGED <<github_cache, net>>
           ELSE /\ github_cache' = got.cache
                /\ net' = got.net
                /\ gc' = IF ~got.ok
                         THEN [gc EXCEPT !.todo = Tail(@),
                                         !.search_errors =
                                             IF IsSilent(item) THEN @
                                             ELSE Append(@, Failure("Error fetching file",
                                                                    item.at))]
                         ELSE IF matched_by = "" \/ AlreadyAdded(gc.examples, item.at)
                         THEN [gc EXCEPT !.todo = Tail(@)]
                         ELSE [gc EXCEPT !.todo = Tail(@),
                                         !.examples = Append(@, [path |-> item.at,
                                                                 matched_by |-> matched_by])]
    /\ UNCHANGED <<doc_cache, tool, arg, site, sd, sg, sf, ga>>
    /\ UNCHANGED notSearchVars

\* link.get("href", "").replace("/openai/openai-agents-python/blob/main/", "")
FilePathOf(e) == ReplaceAll(e.href, RepoBlobPrefix, << >>)

\* the rows with a link, as the loops over file_items see them
RowItems(rows, rule) ==
    LET HasLink(e) == e.href # NoStr
        linked == SelectSeq(rows, HasLink)
    IN  [k \in 1..Len(linked) |->
            Item("fetch", FilePathOf(linked[k]), Lower(Strip(linked[k].text)), rule)]

\* the listing of a directory is requested and read: lines 748-757 and 793
\* (examples), 797-809 and 851 (the additional directories), 854-863 and
\* 890 (src/agents)
GetCodeExamplesListing ==
    /\ gc.pc = "running"
    /\ gc.todo # << >>
    /\ Head(gc.todo).op = "list"
    /\ LET item == Head(gc.todo)
           answer == DirAnswer(item.at)
       IN  gc' = IF answer.status = 200
                 THEN [gc EXCEPT !.todo = RowItems(BoxRows(answer.page), item.rule)
                                          \o Tail(@)]
                 ELSE IF answer.status = 404 /\ item.rule # "examples"
                 THEN [gc EXCEPT !.todo = Tail(@)]
                 ELSE [gc EXCEPT !.todo = Tail(@),
                                 !.search_errors =
                                     Append(@, Failure("Error accessing directory", item.at))]
    /\ net' = Append(net, Request("github", Head(gc.todo).at))
    /\ UNCHANGED <<doc_cache, github_cache, tool, arg, site, sd, sg, sf, ga>>
    /\ UNCHANGED notSearchVars

\* lines 914-932
GetCodeExamplesReturn ==
    /\ gc.pc = "running"
    /\ gc.todo = << >>
    /\ LET debug_info == [search_topic |-> gc.topic, search_terms |-> gc.topic_terms,
                          errors |-> gc.search_errors]
       IN  gc' = [pc |-> "returned",
                  out |-> IF gc.examples = << >>
                          THEN Json([error |-> "No code examples found",
                                     debug_info |-> debug_info])
                          ELSE Json([examples |-> gc.examples,
                                     debug_info |-> debug_info])]
    /\ UNCHANGED <<doc_cache, github_cache, tool, arg, site, net, sd, sg, sf, ga>>
    /\ UNCHANGED notSearchVars

(***************************************************************************)
(* get_api_docs.  The parsed API reference page is the sequence of its     *)
(* elements, [name, text], all siblings of one another.  `todo` holds the  *)
(* source directories to list and the files to fetch, in order.            *)
(***************************************************************************)
ApiReferenceHtml == <<"a", "p", "i", "_", "r", "e", "f", "e", "r", "e", "n", "c", "e", ".", "h", "t", "m", "l">>

\* the siblings looked at before and after an element that holds the query
ContextSiblings == 3

\* line 1095
api_source_dirs == <<SrcAgents, Src, Openai>>

\* the elements that are not prose
CodeTags == { <<"p", "r", "e">>, <<"c", "o", "d", "e">> }

\* line 1055
ContextTags == { <<"p">>, <<"d", "i", "v">>, <<"s", "p", "a", "n">>, <<"a">> }

\* int(tag[1])
HeadingLevel(name) == CHOOSE k \in 1..Len(heading_tags) : heading_tags[k] = name

\* lines 976-988: the positions of the headings that hold the query or one
\* of its terms, in the order of the nested loops
FoundElements(soup, query) ==
    LET Holds(i) == LET heading_text == Lower(Strip(soup[i].text))
                    IN  \/ Contains(heading_text, query)
                        \/ \E k \in 1..Len(SplitWords(query)) :
                               Contains(heading_text, SplitWords(query)[k])
    IN  SelectSeq(ScanOrder(soup), Holds)

\* lines 996-1014: the siblings after the heading at position i up to the
\* next heading of the same or a higher level
SectionBody(soup, i) ==
    LET stops == {j \in (i + 1)..Len(soup) :
                     /\ soup[j].name \in Range(heading_tags)
                     /\ HeadingLevel(soup[j].name) <= HeadingLevel(soup[i].name)}
    IN  SubSeq(soup, i + 1, IF stops = {} THEN Len(soup) ELSE Min(stops) - 1)

\* lines 991-1050; no element of the model lies in a div, so lines
\* 1017-1041 find no parent_div
HeadingMatch(soup, i) ==
    LET IsCode(e) == e.name \in CodeTags
        IsProse(e) == e.name \notin CodeTags
        TextOf(elements) == [k \in 1..Len(elements) |-> Strip(elements[k].text)]
    IN  [heading |-> Strip(soup[i].text),
         content |-> TextOf(SelectSeq(SectionBody(soup, i), IsProse)),
         code_examples |-> TextOf(SelectSeq(SectionBody(soup, i), IsCode))]

RECURSIVE HeadingMatchesOf(_, _)
HeadingMatchesOf(soup, found_elements) ==
    IF found_elements = << >> THEN << >>
    ELSE LET match == HeadingMatch(soup, Head(found_elements))
         IN  (IF match.content # << >> \/ match.code_examples # << >>
              THEN <<match>> ELSE << >>)
             \o HeadingMatchesOf(soup, Tail(found_elements))

\* lines 1055-1089: the first p, div, span or a whose text holds the
\* query, with the siblings around it that have a text
ContextMatch(soup, query) ==
    LET hits == {i \in 1..Len(soup) : /\ soup[i].name \in ContextTags
                                      /\ Contains(Lower(soup[i].text), query)}
        at == Min(hits)
        HasText(e) == Strip(e.text) # << >>
        around == SelectSeq(SubSeq(soup, Max({1, at - ContextSiblings}), at - 1), HasText)
                  \o <<soup[at]>>
                  \o SelectSeq(SubSeq(soup, at + 1, Min({Len(soup), at + ContextSiblings})),
                               HasText)
    IN  IF hits = {} THEN << >>
        ELSE <<[heading |-> NoStr,
                content |-> [k \in 1..Len(around) |-> Strip(around[k].text)],
                code_examples |-> << >>]>>

\* lines 971-1089
ApiMatches(soup, query) ==
    IF HeadingMatchesOf(soup, FoundElements(soup, query)) # << >>
    THEN HeadingMatchesOf(soup, FoundElements(soup, query))
    ELSE ContextMatch(soup, query)

\* lines 939-1095: the name check, the request for the API reference page
\* and what is found on it
GetApiDocsCall ==
    /\ ga.pc = "called"
    /\ LET class_or_function == Strip(ga.query)
           response == site.api
           Dir(k) == Item("list", api_source_dirs[k], << >>, "source")
       IN  IF class_or_function = << >>
           THEN /\ ga' = [pc |-> "returned",
                          out |-> Text("Please provide a class or function name to look up.")]
                /\ UNCHANGED net
           ELSE /\ net' = Append(net, Request("docs", UrlJoin(DOCS_URL, ApiReferenceHtml)))
                /\ ga' = IF response.status = 404
                         THEN [pc |-> "returned",
                               out |-> Json([error |-> "API reference page not found",
                                             query |-> class_or_function])]
                         ELSE IF response.status # 200
                         THEN [pc |-> "returned",
                               out |-> Text("Error retrieving API documentation")]
                         ELSE [pc |-> "sources",
                               class_or_function |-> class_or_function,
                               matches |-> ApiMatches(response.page,
                                                      Lower(class_or_function)),
                               source_results |-> << >>,
                               todo |-> [k \in 1..Len(api_source_dirs) |-> Dir(k)]]
    /\ UNCHANGED <<doc_cache, github_cache, tool, arg, site, sd, sg, sf, gc>>
    /\ UNCHANGED notSearchVars

\* lines 1097-1113 and 1154-1155: the listing of a source directory
GetApiDocsListing ==
    /\ ga.pc = "sources"
    /\ ga.todo # << >>
    /\ Head(ga.todo).op = "list"
    /\ LET answer == DirAnswer(Head(ga.todo).at)
           IsPy(item) == EndsWith(item.at, DotPy)
       IN  ga' = IF answer.status = 200
                 THEN [ga EXCEPT !.todo = SelectSeq(RowItems(BoxRows(answer.page), "source"),
                                                    IsPy) \o Tail(@)]
                 ELSE [ga EXCEPT !.todo = Tail(@)]
    /\ net' = Append(net, Request("github", Head(ga.todo).at))
    /\ UNCHANGED <<doc_cache, github_cache, tool, arg, site, sd, sg, sf, gc>>
    /\ UNCHANGED notSearchVars

Class == <<"c", "l", "a", "s", "s", " ">>

Def == <<"d", "e", "f", " ">>

\* lines 1114-1153: a source file is fetched and searched for the
\* definition; the files of the model hold one line, which is then the
\* definition
GetApiDocsFile ==
    /\ ga.pc = "sources"
    /\ ga.todo # << >>
    /\ Head(ga.todo).op = "fetch"
    /\ LET file_path == Head(ga.todo).at
           got == FetchGithubFile(file_path)
           defined == /\ got.ok
                      /\ \/ Contains(got.content, Class \o ga.class_or_function)
                         \/ Contains(got.content, Def \o ga.class_or_function)
       IN  /\ github_cache' = got.cache
           /\ net' = got.net
           /\ ga' = IF defined
                    THEN [ga EXCEPT !.todo = Tail(@),
                                    !.source_results =
                                        Append(@, [source_file |-> file_path,
                                                   definition |-> got.content])]
                    ELSE [ga EXCEPT !.todo = Tail(@)]
    /\ UNCHANGED <<doc_cache, tool, arg, site, sd, sg, sf, gc>>
    /\ UNCHANGED notSearchVars

\* lines 1165-1166: `await search_docs(class_or_function)`
GetApiDocsSearchDocs ==
    /\ ga.pc = "sources"
    /\ ga.todo = << >>
    /\ ga.matches = << >>
    /\ ga.source_results = << >>
    /\ sd' = Called(ga.class_or_function)
    /\ ga' = [ga EXCEPT !.pc = "awaiting"]
    /\ UNCHANGED <<doc_cache, github_cache, tool, arg, site, net, sg, sf, gc>>
    /\ UNCHANGED notSearchVars

\* lines 1157-1182.  search_docs returns a list of results or a text,
\* never a dictionary, so line 1170 or line 1173 sets documentation_search
\* whenever search_docs was called; a key that the code leaves out is
\* empty here
GetApiDocsReturn ==
    /\ \/ ga.pc = "awaiting" /\ sd.pc = "returned"
       \/ ga.pc = "sources" /\ ga.todo = << >>
                            /\ (ga.matches # << >> \/ ga.source_results # << >>)
    /\ ga' = [pc |-> "returned",
              out |-> IF ga.matches = << >> /\ ga.source_results = << >>
                         /\ ga.pc # "awaiting"
                      THEN Json([error |-> "Could not find API documentation",
                                 query |-> ga.class_or_function])
                      ELSE Json([query |-> ga.class_or_function,
                                 matches |-> ga.matches,
                                 source_code |-> ga.source_results,
                                 documentation_search |->
                                     IF ga.pc = "awaiting" THEN <<sd.out>> ELSE << >>])]
    /\ sd' = IF ga.pc = "awaiting" THEN Idle ELSE sd
    /\ UNCHANGED <<doc_cache, github_cache, tool, arg, site, net, sg, sf, gc>>
    /\ UNCHANGED notSearchVars

(***************************************************************************)
(* The sites and the arguments of the runs                                 *)
(***************************************************************************)
SearchArgs == { << >>, <<" ", "\t">>, <<"a">>, <<"B", " ", "a">>, <<"z">> }

PageA == <<"a">>

PageB == <<"b">>

\* a page without anchors
Plain(page_text) == Ok([text |-> page_text, hrefs |-> << >>])

\* the anchors the main page can hold: none, a page twice, the main page
\* itself, anchors that are skipped, and more anchors than are followed
LinkLists ==
    { << >>, <<PageA>>, <<PageA, PageA>>, <<<<".">>, PageA>>, <<PageB, PageA>>,
      << <<"#", "t">>, PageA, <<"h", "t", "t", "p", "s", ":", "/", "/", "x">>, PageB >>,
      [i \in 1..(MaxLinkedPages + 1) |-> PageA] }

MainPages ==
    {Raises} \cup {Ok([text |-> t, hrefs |-> l]) : t \in {<<"x">>, <<"a", "x", "b">>},
                                                  l \in LinkLists}

LinkedPages == {Raises, Plain(<<"x", "B">>), Plain(<<"z", "a", "b">>)}

DocSites ==
    {[u \in {DOCS_URL, DOCS_URL \o PageA, DOCS_URL \o PageB} |->
         IF u = DOCS_URL THEN main_page ELSE IF u = DOCS_URL \o PageA THEN a ELSE b] :
     main_page \in MainPages, a \in LinkedPages, b \in LinkedPages}

ReadmeMd == <<"R", "E", "A", "D", "M", "E", ".", "m", "d">>

XPy == <<"x", ".", "p", "y">>

ExamplesEPy == Join(Examples, <<"e", ".", "p", "y">>)

ExamplesFMd == Join(Examples, <<"f", ".", "m", "d">>)

DocsDMd == Join(Docs, <<"d", ".", "m", "d">>)

SrcAgentsXPy == Join(SrcAgents, XPy)

\* the raw files of the repository
RepoFiles ==
    [p \in {ReadmeMd, XPy, ExamplesEPy, ExamplesFMd, DocsDMd, SrcAgentsXPy} |->
        CASE p = ReadmeMd -> Ok(<<"x", "a">>)
          [] p = XPy -> Ok(<<"a", "x">>)
          [] p = ExamplesEPy -> Ok(<<"a", "B">>)
          [] p = ExamplesFMd -> Ok(<<"b", "a">>)
          [] p = DocsDMd -> Ok(<<"b">>)
          [] OTHER -> Ok(<<"a">>)]

\* the repository with the raw file at path unreachable
WithoutFile(files, path) == [files EXCEPT ![path] = Raises]

FileSites == {RepoFiles, WithoutFile(RepoFiles, ReadmeMd), WithoutFile(RepoFiles, ExamplesEPy)}

Rows(entries) == Ok([layout |-> "rows", entries |-> entries])

RepoRoots == {Raises, Rows(<<BlobEntry(ReadmeMd), TreeEntry(Examples), BlobEntry(XPy)>>)}

\* the listings of the key directories; src shows a file of src/agents
RepoDirs ==
    [d \in Range(search_github_key_dirs) |->
        CASE d = Examples -> Rows(<<BlobEntry(ExamplesEPy), BlobEntry(ExamplesFMd)>>)
          [] d = Docs -> Rows(<<BlobEntry(DocsDMd)>>)
          [] d = Src -> Rows(<<TreeEntry(SrcAgents), BlobEntry(SrcAgentsXPy)>>)
          [] d = SrcAgents -> Rows(<<BlobEntry(SrcAgentsXPy)>>)
          [] OTHER -> Ok(EmptyPage)]

\* the key directories whose listing fails in one run: none, one, or two
FailingSets ==
    {{}} \cup {{d} : d \in Range(search_github_key_dirs)} \cup {{Examples, Docs}}

DirSites ==
    {[d \in DOMAIN RepoDirs |-> IF d \in failing THEN how ELSE RepoDirs[d]] :
     failing \in FailingSets, how \in {NotFound, Raises}}

\* the rows of the listings that search_files reads: a directory, a file,
\* and a row that has a link but no svg
DirRow(path) ==
    [href |-> RepoTreePrefix \o path, text |-> SplitLast(path, "/"),
     label |-> LabelDirectory, svg |-> TRUE]

FileRow(path) ==
    [href |-> RepoBlobPrefix \o path, text |-> SplitLast(path, "/"),
     label |-> LabelFile, svg |-> TRUE]

BareRow(path) ==
    [href |-> RepoBlobPrefix \o path, text |-> SplitLast(path, "/"),
     label |-> NoStr, svg |-> FALSE]

ExamplesAgents == Join(Examples, Agents)

ExamplesAgentsAgents == Join(ExamplesAgents, Agents)

TestsTPy == Join(Tests, <<"t", ".", "p", "y">>)

\* a repository in which examples/agents holds a directory agents, which
\* holds a directory agents again; test does not exist
TreeDirs(tests_answer) ==
    [d \in {Examples, ExamplesAgents, ExamplesAgentsAgents, Src, SrcAgents, Docs, Tests} |->
        CASE d = Examples -> Rows(<<DirRow(ExamplesAgents),
                                    FileRow(Join(Examples, BasicAgentPy))>>)
          [] d = ExamplesAgents -> Rows(<<FileRow(Join(ExamplesAgents, <<"a", ".", "p", "y">>)),
                                          DirRow(ExamplesAgentsAgents)>>)
          [] d = ExamplesAgentsAgents -> Rows(<<DirRow(Join(ExamplesAgentsAgents, Agents)),
                                                FileRow(Join(ExamplesAgentsAgents, <<"b", ".", "p", "y">>))>>)
          [] d = Src -> Rows(<<DirRow(SrcAgents)>>)
          [] d = SrcAgents -> Rows(<<BareRow(SrcAgentsXPy),
                                     FileRow(Join(SrcAgents, HandoffsPy))>>)
          [] d = Docs -> Rows(<<FileRow(DocsDMd)>>)
          [] OTHER -> tests_answer]

TreeSites == {TreeDirs(Raises), TreeDirs(Rows(<<FileRow(TestsTPy)>>))}

\* the topics of get_code_examples
TopicArgs == { << >>, <<" ", "\t">>, <<"a">>, <<"z">>, Handoff }

\* the raw files of the repository of TreeDirs
TreeFiles(handoffs_answer) ==
    [p \in {Join(Examples, BasicAgentPy), Join(Examples, <<"a", ".", "p", "y">>), SrcAgentsXPy,
            Join(SrcAgents, HandoffsPy), TestsTPy} |->
        CASE p = SrcAgentsXPy -> Ok(<<"a", " ", "z">>)
          [] p = Join(SrcAgents, HandoffsPy) -> handoffs_answer
          [] p = TestsTPy -> Ok(<<"b">>)
          [] OTHER -> Ok(<<"x">>)]

TreeFileSites == {TreeFiles(Raises), TreeFiles(Ok(Handoff))}

\* the names looked up with get_api_docs
NameArgs == { << >>, <<" ">>, <<"a">>, <<"B">>, <<" ", "B">>, <<"z">> }

Element(name, text) == [name |-> name, text |-> text]

\* what the API reference page can answer
ApiPages ==
    { NotFound, Raises,
      Ok(<<Element(<<"h", "1">>, <<"B">>), Element(<<"p">>, <<"x">>),
           Element(<<"h", "2">>, <<"a">>), Element(<<"h", "1">>, <<"c">>)>>),
      Ok(<<Element(<<"p">>, <<"x">>), Element(<<"p">>, <<" ">>),
           Element(<<"p">>, <<"a", "B">>)>>),
      Ok(<<Element(<<"h", "1">>, <<"a">>)>>) }

SrcYPy == Join(Src, <<"y", ".", "p", "y">>)

\* the source directories: openai does not exist
SourceDirs(src_answer) ==
    [d \in {SrcAgents, Src} |->
        IF d = SrcAgents
        THEN Rows(<<FileRow(SrcAgentsXPy), DirRow(Join(SrcAgents, Examples))>>)
        ELSE src_answer]

SourceDirSites == {SourceDirs(Raises), SourceDirs(Rows(<<DirRow(SrcAgents), FileRow(SrcYPy)>>))}

SourceFiles(x_answer) ==
    [p \in {SrcAgentsXPy, SrcYPy} |->
        IF p = SrcAgentsXPy THEN x_answer ELSE Ok(Def \o <<"a">>)]

SourceFileSites == {SourceFiles(Raises), SourceFiles(Ok(Class \o <<"B">>))}

\* the documentation that get_api_docs falls back to
FallbackDocs ==
    [u \in {DOCS_URL, DOCS_URL \o PageA} |->
        IF u = DOCS_URL THEN Ok([text |-> <<"a", "x", "b">>, hrefs |-> <<PageA>>])
        ELSE Plain(<<"z", "a", "b">>)]

\* a site that answers nothing
NoSite ==
    [docs |-> << >>, api |-> Raises, repo_root |-> Raises, dirs |-> << >>,
     below |-> << >>, files |-> << >>]

SitesOf(called) ==
    CASE called = "search_docs" -> {[NoSite EXCEPT !.docs = d] : d \in DocSites}
      [] called = "search_github" ->
           {[NoSite EXCEPT !.repo_root = r, !.dirs = d, !.files = f] :
            r \in RepoRoots, d \in DirSites, f \in FileSites}
      [] called = "search_files" ->
           {[NoSite EXCEPT !.repo_root = r, !.dirs = d] :
            r \in RepoRoots, d \in TreeSites}
      [] called = "get_code_examples" ->
           {[NoSite EXCEPT !.repo_root = r, !.dirs = d, !.files = f] :
            r \in RepoRoots \ {Raises}, d \in TreeSites, f \in TreeFileSites}
      [] called = "get_api_docs" ->
           {[NoSite EXCEPT !.docs = FallbackDocs, !.api = a, !.dirs = d, !.files = f] :
            a \in ApiPages, d \in SourceDirSites, f \in SourceFileSites}

Tools == {"search_docs", "search_github", "search_files", "get_code_examples",
          "get_api_docs"}

\* the caches when the tool is called: empty, or filled by earlier calls
\* with a page and a file that the site has dropped since
CachesAtCall ==
    { [doc_cache |-> << >>, github_cache |-> << >>],
      [doc_cache |-> [u \in {DOCS_URL \o <<"o", "l", "d">>} |-> [text |-> <<"a">>, hrefs |-> << >>]],
       github_cache |-> [p \in {<<"o", "l", "d", ".", "m", "d">>} |-> <<"a">>]] }

\* the arguments a tool is called with
ArgsOf(called) ==
    CASE called = "get_code_examples" -> TopicArgs
      [] called = "get_api_docs" -> NameArgs
      [] OTHER -> SearchArgs

\* the locals of each tool once `called` has been called with `argument`
LocalsAtCall(called, argument) ==
    [t \in Tools |-> IF t = called THEN Called(argument) ELSE Idle]

InitSearch ==
    /\ tool \in Tools
    /\ arg \in ArgsOf(tool)
    /\ site \in SitesOf(tool)
    /\ \E caches \in CachesAtCall : /\ doc_cache = caches.doc_cache
                                    /\ github_cache = caches.github_cache
    /\ net = << >>
    /\ sd = LocalsAtCall(tool, arg)["search_docs"]
    /\ sg = LocalsAtCall(tool, arg)["search_github"]
    /\ sf = LocalsAtCall(tool, arg)["search_files"]
    /\ gc = LocalsAtCall(tool, arg)["get_code_examples"]
    /\ ga = LocalsAtCall(tool, arg)["get_api_docs"]

\* repositories whose listings go round: every directory named src holds
\* a directory src and a file a.py; or every src holds a directory agents
\* and every agents holds a directory src and a file a.py
APy == <<"a", ".", "p", "y">>

SelfNamed == [n \in {Src} |-> Rows(<<DirRow(Src), FileRow(APy)>>)]

EachOther ==
    [n \in {Src, Agents} |->
        IF n = Src THEN Rows(<<DirRow(Agents)>>)
        ELSE Rows(<<FileRow(APy), DirRow(Src)>>)]

RoundSites == {[NoSite EXCEPT !.repo_root = r, !.below = b] :
               r \in RepoRoots, b \in {SelfNamed, EachOther}}

\* search_files has been called
InitFiles ==
    /\ tool = "search_files"
    /\ arg \in SearchArgs
    /\ site \in SitesOf("search_files") \cup RoundSites
    /\ doc_cache = << >>
    /\ github_cache = << >>
    /\ net = << >>
    /\ sd = Idle
    /\ sg = Idle
    /\ sf = Called(arg)
    /\ gc = Idle
    /\ ga = Idle

NextFiles ==
    \/ SearchFilesCall
    \/ \E k \in 1..(Len(search_files_key_dirs) + 1) : SearchFilesRespond(k)
    \/ SearchFilesRetry
    \/ SearchFilesReturn

IdleSearch ==
    /\ tool = "none"
    /\ arg = << >>
    /\ site = NoSite
    /\ net = << >>
    /\ sd = Idle
    /\ sg = Idle
    /\ sf = Idle
    /\ gc = Idle
    /\ ga = Idle

NextSearch ==
    \/ SearchDocsCall
    \/ SearchDocsLink
    \/ SearchDocsReturn
    \/ SearchGithubCall
    \/ SearchGithubRootFile
    \/ SearchGithubFanOut
    \/ \E k \in 1..Len(search_github_key_dirs) : SearchDirectoryRespond(k)
    \/ \E k \in 1..Len(search_github_key_dirs) : SearchDirectoryFile(k)
    \/ SearchGithubJoin
    \/ SearchFilesCall
    \/ \E k \in 1..(Len(search_files_key_dirs) + 1) : SearchFilesRespond(k)
    \/ SearchFilesRetry
    \/ SearchFilesReturn
    \/ GetCodeExamplesCall
    \/ GetCodeExamplesSearchFiles
    \/ GetCodeExamplesMatches
    \/ GetCodeExamplesFetch
    \/ GetCodeExamplesListing
    \/ GetCodeExamplesReturn
    \/ GetApiDocsCall
    \/ GetApiDocsListing
    \/ GetApiDocsFile
    \/ GetApiDocsSearchDocs
    \/ GetApiDocsReturn

(***************************************************************************)
(* Specifications                                                          *)
(***************************************************************************)
\* no fetch helper has been called
IdleCache == InitCache

InitSpecCache ==
    InitCache /\ IdleList /\ IdleCrawl /\ IdleHit /\ IdleSection /\ IdleSearch

InitSpecList ==
    InitList /\ IdleCache /\ IdleCrawl /\ IdleHit /\ IdleSection /\ IdleSearch

InitSpecCrawl ==
    InitCrawl /\ IdleCache /\ IdleList /\ IdleHit /\ IdleSection /\ IdleSearch

InitSpecHit ==
    InitHit /\ IdleCache /\ IdleList /\ IdleCrawl /\ IdleSection /\ IdleSearch

InitSpecSection ==
    InitSection /\ IdleCache /\ IdleList /\ IdleCrawl /\ IdleHit /\ IdleSearch

InitSpecSearch ==
    InitSearch /\ IdleFetches /\ IdleList /\ IdleCrawl /\ IdleHit /\ IdleSection

SpecCache == InitSpecCache /\ [][NextCache]_vars

SpecList == InitSpecList /\ [][NextList]_vars

SpecCrawl == InitSpecCrawl /\ [][NextCrawl]_vars

SpecHit == InitSpecHit /\ [][NextHit]_vars

SpecSection == InitSpecSection /\ [][NextSection]_vars

SpecSearch == InitSpecSearch /\ [][NextSearch]_vars

InitSpecFiles ==
    InitFiles /\ IdleFetches /\ IdleList /\ IdleCrawl /\ IdleHit /\ IdleSection

SpecFiles == InitSpecFiles /\ [][NextFiles]_vars

\* search_files runs on the asyncio event loop, which resumes every
\* coroutine that is ready, and every request it awaits is made with
\* timeout=10.0 (line 574), so it is answered or raises: a step of the call
\* that stays possible is taken
FairSpecFiles == SpecFiles /\ WF_vars(NextFiles)

(***************************************************************************)
(* Properties of the fetch caches                                          *)
(***************************************************************************)
Started(c) == fpc[c] # "idle"

SameKey(p, q) == Started(p) /\ Started(q) /\ fkind[p] = fkind[q] /\ fkey[p] = fkey[q]

\* the positions of the writes to one key in writeLog
WritesTo(kind, key) ==
    {i \in 1..Len(writeLog) : writeLog[i].kind = kind /\ writeLog[i].key = key}

\* every pair of invocations so far ran one after the other
NoConcurrency ==
    \A a, b \in Calls :
        (a # b /\ Started(a) /\ Started(b)) => (a \in doneBefore[b] \/ b \in doneBefore[a])

\* C1: a fetch that fails stores nothing in either cache and ends with the
\* error raised to its caller; while no fetch of the key has succeeded the
\* key is absent from the cache, and a later call with the same key issues a
\* network request of its own.
C1_FailedFetchNotCached ==
    /\ [][\A c \in Calls :
            (fpc[c] = "awaiting" /\ fpc'[c] = "raised") =>
                /\ doc_cache' = doc_cache
                /\ github_cache' = github_cache
                /\ fresult'[c] = None]_vars
    /\ [](\A p \in Calls :
            (fpc[p] = "raised" /\ WritesTo(fkind[p], fkey[p]) = {}) =>
                /\ fkey[p] \notin DOMAIN CacheOf(fkind[p])
                /\ \A q \in Calls :
                     (/\ p \in doneBefore[q]
                      /\ SameKey(p, q)
                      /\ fpc[q] \in {"awaiting", "returned", "raised"})
                     => requests[q] = 1)

\* a fetch failed, and the next call with its key is waiting for the answer
\* to a request of its own
C1_Witness ==
    \E p, q \in Calls :
        /\ fpc[p] = "raised"
        /\ p \in doneBefore[q]
        /\ SameKey(p, q)
        /\ fpc[q] = "awaiting"
        /\ requests[q] = 1
        /\ fkey[p] \notin DOMAIN CacheOf(fkind[p])

\* C2 as stated: without concurrency, two sequential calls with the same key
\* issue at most one network request in total.
C2_Original ==
    \A p, q \in Calls :
        (/\ NoConcurrency
         /\ SameKey(p, q)
         /\ p \in doneBefore[q]
         /\ Finished(q))
        => requests[p] + requests[q] <= 1

\* C2 as amended: without concurrency, when the first of two sequential
\* calls with the same key returned a value, the two issue at most one
\* network request in total and the second is answered from the cache with
\* the value the first returned.
C2_SecondCallFromCache ==
    \A p, q \in Calls :
        (/\ NoConcurrency
         /\ SameKey(p, q)
         /\ p \in doneBefore[q]
         /\ fpc[p] = "returned")
        => /\ requests[p] + requests[q] <= 1
           /\ requests[q] = 0
           /\ fpc[q] = "returned"
           /\ fresult[q] = fresult[p]

\* the first call fetched and returned, the second returned without a request
C2_Witness ==
    \E p, q \in Calls :
        /\ NoConcurrency
        /\ SameKey(p, q)
        /\ p \in doneBefore[q]
        /\ fpc[p] = "returned"
        /\ requests[p] = 1
        /\ fpc[q] = "returned"
        /\ requests[q] = 0

\* one step of one cache: no key is lost, no value changes
Frozen(cache, cacheNext) ==
    \A k \in DOMAIN cache : k \in DOMAIN cacheNext /\ cacheNext[k] = cache[k]

\* C3 as stated: a key that is present is never removed and its value never
\* changes, under any interleaving of fetches.
C3_Original ==
    [][Frozen(doc_cache, doc_cache') /\ Frozen(github_cache, github_cache')]_vars

\* one step of one cache: no key is lost, and a value changes only by the
\* store of a fetch of that key which began before any write of the key had
\* returned
OnlyRacingOverwrite(kind, cache, cacheNext) ==
    \A k \in DOMAIN cache :
        /\ k \in DOMAIN cacheNext
        /\ cacheNext[k] # cache[k] =>
             \E c \in Calls :
                /\ fpc[c] = "awaiting" /\ fpc'[c] = "returned"
                /\ fkind[c] = kind /\ fkey[c] = k
                /\ fhit[c] = FALSE
                /\ cacheNext[k] = fresult'[c]
                /\ \A i \in WritesTo(kind, k) : writeLog[i].call \notin doneBefore[c]

\* C3 as amended: a key that is present is never removed; its value is
\* never changed by a call that begins after the key was stored, and changes
\* only when a fetch of the same key that was already in flight stores what
\* it received.
C3_KeyKeptValueOnlyRaced ==
    [][/\ OnlyRacingOverwrite("doc", doc_cache, doc_cache')
       /\ OnlyRacingOverwrite("github", github_cache, github_cache')]_vars

\* two writes of one key with different values have happened
C3_Witness ==
    \E i, j \in 1..Len(writeLog) :
        /\ i < j
        /\ writeLog[i].kind = writeLog[j].kind
        /\ writeLog[i].key = writeLog[j].key
        /\ writeLog[i].value # writeLog[j].value
        /\ CacheOf(writeLog[j].kind)[writeLog[j].key] = writeLog[j].value

\* p and q are calls for one key, neither finished when the other began,
\* and the cache check of both was a miss
Racing(p, q) ==
    /\ p # q
    /\ SameKey(p, q)
    /\ p \notin doneBefore[q] /\ q \notin doneBefore[p]
    /\ fhit[p] = FALSE /\ fhit[q] = FALSE

Wrote(c) == \E i \in 1..Len(writeLog) : writeLog[i].call = c

\* C4: there is no single-flight lock.  Two calls for one uncached key that
\* both pass the cache check before either completes each issue a network
\* request and each store what they received; once both are done the cache
\* holds the value of the last of the writes.
C4_NoSingleFlight ==
    \A p, q \in Calls :
        Racing(p, q) =>
            /\ fpc[p] \in {"awaiting", "returned", "raised"} => requests[p] = 1
            /\ fpc[p] = "returned" => Wrote(p)
            /\ (fpc[p] = "returned" /\ fpc[q] = "returned") =>
                  /\ fkey[p] \in DOMAIN CacheOf(fkind[p])
                  /\ Cardinality(WritesTo(fkind[p], fkey[p])) >= 2
                  /\ CacheOf(fkind[p])[fkey[p]] =
                        writeLog[Max(WritesTo(fkind[p], fkey[p]))].value

\* two racing calls have both stored, the second a different value
C4_Witness ==
    \E p, q \in Calls :
        /\ Racing(p, q)
        /\ fpc[p] = "returned" /\ fpc[q] = "returned"
        /\ requests[p] = 1 /\ requests[q] = 1
        /\ fresult[p] # fresult[q]
        /\ CacheOf(fkind[p])[fkey[p]] = fresult[q]

\* C28: the documentation cache is keyed by the canonical URL of the page:
\* when a fetch of a page by one form of its address (relative path or
\* absolute URL) has returned, a later fetch of the same page by the other
\* form is answered from that cache entry and issues no network request.
C28_KeyedByCanonicalUrl ==
    \A p, q \in Calls :
        (/\ NoConcurrency
         /\ Started(p) /\ Started(q)
         /\ fkind[p] = "doc" /\ fkind[q] = "doc"
         /\ FullUrl(fkey[p]) = FullUrl(fkey[q])
         /\ p \in doneBefore[q]
         /\ fpc[p] = "returned")
        => /\ requests[q] = 0
           /\ fhit[q] = TRUE

(***************************************************************************)
(* Properties of the listing step                                          *)
(***************************************************************************)
\* path is dir_path + "/" + exactly one non-empty segment
DirectChild(dir_path, path) ==
    /\ StartsWith(path, dir_path \o Slash)
    /\ Len(path) > Len(dir_path) + 1
    /\ "/" \notin Range(SubSeq(path, Len(dir_path) + 2, Len(path)))

ListStepDone == lsOut # NoDict

\* the file and directory entries recorded by the listing step
Recorded == lsOut.files \o lsOut.directories

\* C9: every file or directory entry the crawl of directory D records is a
\* direct child of D (its path is D + "/" + one segment); entries deeper
\* below D or outside D are rejected.
C9_OnlyDirectChildren ==
    ListStepDone =>
        /\ \A i \in 1..Len(Recorded) : DirectChild(lsDir, Recorded[i].path)
        /\ \A i \in 1..Len(lsOut.subdirs) : DirectChild(lsDir, lsOut.subdirs[i])

\* C10: the path of every node equals the path of its parent + "/" + the
\* name of the node.
C10_PathIsParentSlashName ==
    ListStepDone =>
        \A i \in 1..Len(Recorded) : Recorded[i].path = Join(lsDir, Recorded[i].name)

\* C11: no path appears twice among the entries the crawl of a directory
\* records, nor among the sub-directories it goes on to crawl: an entry the
\* listing holds more than once is recorded once.
C11_NoPathTwice ==
    ListStepDone =>
        /\ \A i, j \in 1..Len(Recorded) :
              Recorded[i].path = Recorded[j].path => i = j
        /\ \A i, j \in 1..Len(lsOut.subdirs) :
              lsOut.subdirs[i] = lsOut.subdirs[j] => i = j

(***************************************************************************)
(* Properties of the match-and-snippet step                                *)
(***************************************************************************)
HitStepDone == hitOut # NoDict

\* term occurs in text at offset i (from 0), letter case ignored
OccursAt(text, term, i) ==
    /\ i >= 0
    /\ i + Len(term) <= Len(text)
    /\ \A j \in 1..Len(term) : LowerChar(text[i + j]) = LowerChar(term[j])

Occurs(text, term) == \E i \in 0..Len(text) : OccursAt(text, term, i)

\* the offset of the first occurrence
FirstOffset(text, term) == Min({i \in 0..Len(text) : OccursAt(text, term, i)})

\* the snippet between its two "..." markers
Shown == SubSeq(hitOut.snippet, Len(Dots) + 1, Len(hitOut.snippet) - Len(Dots))

C15_Original ==
    (HitStepDone /\ hitOut.hit) => Len(Shown) <= 2 * SnippetContext

\* C15: for a document of length N and a match of the term at offset i the
\* snippet starts at max(0, i - 100), ends at min(N, i + len(term) + 100),
\* and so has length at most 200 + len(term); it is 200 or less whenever
\* the document leaves less than 100 characters on one side of the match.
C15_SnippetBounds ==
    (HitStepDone /\ hitOut.hit) =>
        LET term == hitOut.matched_term
            N == Len(hitContent)
            i == FirstOffset(hitContent, term)
            start == Max({0, i - SnippetContext})
            end == Min({N, i + Len(term) + SnippetContext})
        IN  /\ Shown = SubSeq(hitContent, start + 1, end)
            /\ Len(Shown) = end - start
            /\ Len(Shown) <= 2 * SnippetContext + Len(term)
            /\ hitOut.snippet = Dots \o Shown \o Dots

\* a match with 100 characters or more on both sides: the snippet holds
\* 200 characters and the term
C15_Witness ==
    /\ HitStepDone
    /\ hitOut.hit
    /\ Len(Shown) = 2 * SnippetContext + Len(hitOut.matched_term)
    /\ Len(Shown) < Len(hitContent)

(***************************************************************************)
(* Properties of get_section                                               *)
(***************************************************************************)
\* a heading was selected and the walk ended without an error
SectionFound == secOut # NoDict /\ secOut.outcome \in {"found", "found but empty"}

\* the parsed page of the call
Soup == DocumentOrder(secResponse.page)

IsHeadingAt(soup, i) == \E t \in 1..Len(heading_tags) : soup[i].name = heading_tags[t]

\* the heading at position i has the section name in its lower-cased text
NamesSection(soup, i) ==
    /\ IsHeadingAt(soup, i)
    /\ Contains(Lower(soup[i].text), Lower(secSection))

\* C20: the first pass selects the first heading in document order whose
\* lower-cased text equals or contains the lower-cased section name,
\* whatever the levels of the matching headings.
C20_FirstInDocumentOrder ==
    LET soup == Soup
    IN  (SectionFound /\ secOut.pass = 1) =>
            /\ NamesSection(soup, secOut.heading)
            /\ \A i \in 1..(secOut.heading - 1) : ~NamesSection(soup, i)

\* the call reached the search for the heading
SearchedHeadings ==
    /\ secOut # NoDict
    /\ secPage # << >>
    /\ secSection # << >>
    /\ secResponse.status = 200

\* how many words of the section name the heading at position i holds
WordsHeld(soup, i) ==
    LET words == SplitWords(Lower(secSection))
    IN  Cardinality({k \in 1..Len(words) : Contains(Lower(soup[i].text), words[k])})

\* the heading at i is scanned before the heading at j: headings of a
\* higher level first, those of one level in document order
ScannedBefore(soup, i, j) ==
    \/ IntOf(soup[i].name[2]) < IntOf(soup[j].name[2])
    \/ IntOf(soup[i].name[2]) = IntOf(soup[j].name[2]) /\ i < j

HeadingsOf(soup) == {i \in 1..Len(soup) : IsHeadingAt(soup, i)}

Selected == FindHeading(Soup, secSection)

SelectedNode == Soup[Selected.heading]

SiblingsOfSelected ==
    IF SelectedNode.sub = 0 THEN secResponse.page.children
    ELSE secResponse.page.children[SelectedNode.top].inner

PlaceOfSelected == IF SelectedNode.sub = 0 THEN SelectedNode.top ELSE SelectedNode.sub

LevelOfSelected == IntOf(SelectedNode.name[2])

\* a heading was selected on the page of the call
HeadingSelected == SearchedHeadings /\ Selected.outcome = "found"

\* the place of the last sibling of the section: the one before the first
\* later sibling that is a heading h1 .. h6 of the level of the selected
\* heading or above, or the last sibling
LastOfSection ==
    LET closing == {j \in (PlaceOfSelected + 1)..Len(SiblingsOfSelected) :
                       /\ SiblingsOfSelected[j].name \in Range(heading_tags)
                       /\ IntOf(SiblingsOfSelected[j].name[2]) <= LevelOfSelected}
    IN  IF closing = {} THEN Len(SiblingsOfSelected) ELSE Min(closing) - 1

SectionNodes == SubSeq(SiblingsOfSelected, PlaceOfSelected + 1, LastOfSection)

\* a node that has a text to give: an element, or a string that is not
\* blank
HasContent(node) == node.name # NoStr \/ Strip(node.text) # << >>

TextsOf(nodes) ==
    LET with == SelectSeq(nodes, HasContent)
    IN  [k \in 1..Len(with) |-> GetTextStripped(with[k])]

\* an element with a two-character name that starts with h and is not one
\* of h1 .. h6, like hr
IsOtherHTag(node) ==
    /\ node.name # NoStr
    /\ Len(node.name) = 2
    /\ node.name[1] = "h"
    /\ node.name \notin Range(heading_tags)

\* C22: when the matched heading of level L lies in a flat sequence of
\* siblings, the content returned is exactly the texts of the siblings
\* after it up to, and not including, the first later sibling that is a
\* heading of level <= L, or up to the last sibling when there is none.
C22_ContentUpToBoundary ==
    (HeadingSelected /\ SelectedNode.sub = 0 /\ TextsOf(SectionNodes) # << >>) =>
        /\ secOut.outcome = "found"
        /\ secOut.content = TextsOf(SectionNodes)

\* C22 holds of the sections without an element like hr
C22_WithoutOtherHTags ==
    ( /\ HeadingSelected
      /\ SelectedNode.sub = 0
      /\ TextsOf(SectionNodes) # << >>
      /\ \A j \in 1..Len(SectionNodes) : ~IsOtherHTag(SectionNodes[j]) ) =>
        /\ secOut.outcome = "found"
        /\ secOut.content = TextsOf(SectionNodes)

IsCodeBlock(node) == node.name = <<"p", "r", "e">>

\* C23: every code block that lies between the matched heading and the
\* boundary of its section is in the code examples that get_section
\* returns, also when no heading closes the section and it runs to the
\* last sibling.
C23_CodeBlocksReturned ==
    (HeadingSelected /\ secOut.outcome = "found") =>
        \A j \in 1..Len(SectionNodes) :
            IsCodeBlock(SectionNodes[j]) =>
                \E k \in 1..Len(secOut.code_examples) :
                    secOut.code_examples[k] = SectionNodes[j].text

\* C23 holds of the sections that a heading closes, on pages whose
\* elements start on a line each
C23_ClosedSections ==
    ( /\ HeadingSelected
      /\ secOut.outcome = "found"
      /\ ~secResponse.page.one_line
      /\ LastOfSection < Len(SiblingsOfSelected) ) =>
        \A j \in 1..Len(SectionNodes) :
            IsCodeBlock(SectionNodes[j]) =>
                \E k \in 1..Len(secOut.code_examples) :
                    secOut.code_examples[k] = SectionNodes[j].text

\* C24: the content that get_section returns never holds the text of a
\* code block of the section: it is the texts of the other siblings.
C24_NoCodeInContent ==
    (HeadingSelected /\ secOut.outcome = "found") =>
        \A j \in 1..Len(SectionNodes) :
            IsCodeBlock(SectionNodes[j]) =>
                \A k \in 1..Len(secOut.content) :
                    secOut.content[k] # GetTextStripped(SectionNodes[j])

\* the children of the enclosing div that the fallback walks over: those
\* after the first child that is like the selected heading, up to the
\* first heading h1 .. h6 of its level or above
FallbackNodes ==
    LET children == secResponse.page.children
        like == {i \in 1..Len(children) :
                    /\ children[i].name = SelectedNode.name
                    /\ children[i].inner = << >>
                    /\ children[i].text = SelectedNode.text}
        closing == {j \in (Min(like) + 1)..Len(children) :
                       /\ children[j].name \in Range(heading_tags)
                       /\ IntOf(children[j].name[2]) <= LevelOfSelected}
    IN  IF ~secResponse.page.container \/ like = {} THEN << >>
        ELSE SubSeq(children, Min(like) + 1,
                    IF closing = {} THEN Len(children) ELSE Min(closing) - 1)

\* C25: when a heading is matched and neither its later siblings up to
\* the boundary nor the enclosing div have a text to give, get_section
\* returns the found-but-empty outcome with the matched heading, not the
\* section-not-found outcome; and when the siblings have a text to give,
\* the content returned is theirs alone: the div is not searched.
C25_FoundButEmpty ==
    /\ ( /\ HeadingSelected
         /\ TextsOf(SectionNodes) = << >>
         /\ TextsOf(FallbackNodes) = << >> ) =>
           /\ secOut.outcome = "found but empty"
           /\ secOut.heading = Selected.heading
           /\ secOut.section = SelectedNode.text
    /\ ( /\ HeadingSelected
         /\ TextsOf(SectionNodes) # << >>
         /\ secOut.outcome = "found" ) =>
           secOut.content = TextsOf(SectionNodes)

\* found but empty: the heading has later siblings, all of them blank
\* strings, and the enclosing div, searched from the heading on, has
\* nothing else
C25_Witness ==
    /\ HeadingSelected
    /\ secOut.outcome = "found but empty"
    /\ secResponse.page.container
    /\ SelectedNode.sub = 0
    /\ SectionNodes # << >>

\* C29: the walk of get_section treats only h1 .. h6 as headings: when a
\* later sibling of the matched heading within its section is another
\* element whose name has two characters and starts with h, like hr, the
\* walk goes on to the boundary and get_section does not end in an error.
C29_OnlyHeadingsEndWalk ==
    ( /\ HeadingSelected
      /\ \E j \in 1..Len(SectionNodes) : IsOtherHTag(SectionNodes[j]) ) =>
        /\ secOut.outcome = "found"
        /\ secOut.content = TextsOf(SectionNodes)

(***************************************************************************)
(* Properties of the search tools                                          *)
(***************************************************************************)
\* search_docs / search_github has returned a list of results
DocsResults == sd.pc = "returned" /\ IsJson(sd.out)

GithubReturned == sg.pc = "returned" /\ IsJson(sg.out)

GithubResults == GithubReturned /\ "results" \in DOMAIN sg.out.json

\* the documents of a list of results
DocsOf(results) == [i \in 1..Len(results) |-> results[i].doc]

NoneTwice(seq) == \A i, j \in 1..Len(seq) : seq[i] = seq[j] => i = j

\* C14: in every result list of search_docs or search_github each document
\* (URL or path) is in at most one result.
C14_OneResultPerDocument ==
    /\ DocsResults => NoneTwice(DocsOf(sd.out.json))
    /\ GithubResults => NoneTwice(DocsOf(sg.out.json.results))

\* C16: the results of search_github are those of the root files first,
\* then those of the key directories in their declared order (openai,
\* examples, docs, src, src/agents, tests), in whatever order the
\* directory searches finished.
C16_DeclaredOrder ==
    /\ search_github_key_dirs = <<Openai, Examples, Docs, Src, SrcAgents, Tests>>
    /\ GithubResults =>
          /\ sg.out.json.results =
                sg.root_results \o sg.tasks[1].dir_results \o sg.tasks[2].dir_results
                \o sg.tasks[3].dir_results \o sg.tasks[4].dir_results
                \o sg.tasks[5].dir_results \o sg.tasks[6].dir_results
          /\ \A i \in 1..Len(sg.root_results) : "/" \notin Range(sg.root_results[i].doc)
          /\ \A k \in 1..Len(sg.tasks) : \A i \in 1..Len(sg.tasks[k].dir_results) :
                StartsWith(sg.tasks[k].dir_results[i].doc,
                           search_github_key_dirs[k] \o Slash)

\* results of a root file and of two key directories, the search of the
\* later directory having finished before that of the earlier one
C16_Witness ==
    /\ GithubResults
    /\ sg.overtook
    /\ sg.root_results # << >>
    /\ Cardinality({k \in 1..Len(sg.tasks) : sg.tasks[k].dir_results # << >>}) >= 2

\* the listing of key directory k fails
ListingFails(k) == DirAnswer(search_github_key_dirs[k]).status # 200

\* the paths of the .py and .md files that the listing of the key
\* directory k shows when it does not fail, whose raw file can be fetched
\* and holds a term of the query
HitsBelow(k, query_terms) ==
    LET entries == RepoDirs[search_github_key_dirs[k]].page.entries
        paths == [i \in 1..Len(entries) |->
                     SubSeq(entries[i].href, Len(RepoBlobPrefix) + 1, Len(entries[i].href))]
        Hit(p) == /\ EndsWith(p, DotPy) \/ EndsWith(p, DotMd)
                  /\ FileAnswer(p).status = 200
                  /\ \E t \in 1..Len(query_terms) : Occurs(FileAnswer(p).page, query_terms[t])
    IN  SelectSeq(paths, Hit)

\* C17: when the search of a key directory fails, every other key
\* directory gives the results it gives when no directory fails, the query
\* returns them, and the failure is in the errors of debug_info and
\* nowhere else.
C17_FailureIsolated ==
    (GithubReturned /\ \E k \in 1..Len(search_github_key_dirs) : ListingFails(k)) =>
        \A k \in 1..Len(search_github_key_dirs) :
            IF ListingFails(k)
            THEN /\ sg.tasks[k].dir_results = << >>
                 /\ \E i \in 1..Len(sg.out.json.debug_info.errors) :
                       /\ sg.out.json.debug_info.errors[i].at = search_github_key_dirs[k]
                       /\ sg.out.json.debug_info.errors[i].what \in
                             {"Directory not found", "Error searching directory"}
            ELSE /\ DocsOf(sg.tasks[k].dir_results) = HitsBelow(k, sg.query_terms)
                 /\ sg.tasks[k].dir_results # << >> =>
                       /\ GithubResults
                       /\ \A i \in 1..Len(sg.tasks[k].dir_results) :
                             \E j \in 1..Len(sg.out.json.results) :
                                sg.out.json.results[j] = sg.tasks[k].dir_results[i]

\* examples could not be listed; the results of docs and of src/agents
\* are returned
C17_Witness ==
    /\ GithubResults
    /\ ListingFails(2)
    /\ sg.tasks[3].dir_results # << >>
    /\ sg.tasks[5].dir_results # << >>
    /\ \E j \in 1..Len(sg.out.json.results) : sg.out.json.results[j].doc = DocsDMd

\* the local links of the main page that search_docs follows
Followed ==
    LET hrefs == DocAnswer(DOCS_URL).page.hrefs
        Local(h) == /\ ~StartsWith(h, <<"h", "t", "t", "p">>)
                    /\ ~StartsWith(h, <<"#">>)
        locals == SelectSeq(hrefs, Local)
    IN  SubSeq(locals, 1, Min({Len(locals), MaxLinkedPages}))

\* the linked page can be fetched and holds a term of the query
PageHits(href, query_terms) ==
    LET answer == DocAnswer(UrlJoin(DOCS_URL, href))
    IN  /\ answer.status = 200
        /\ \E t \in 1..Len(query_terms) : Occurs(answer.page.text, query_terms[t])

\* C19: a search returns a top-level error only when the fetch at its root
\* fails; a linked page, file or directory that cannot be fetched never
\* ends search_docs or search_github, and the items before and after it
\* still give their results.
C19_OnlyRootFailureSurfaces ==
    /\ (sd.pc = "returned" /\ IsText(sd.out)
           /\ sd.out = Text("Error searching documentation"))
          => DocAnswer(DOCS_URL).status # 200
    /\ (sd.pc = "returned" /\ DocAnswer(DOCS_URL).status = 200
           /\ sd.out # Text("Please provide a search query."))
          => LET linked == SelectSeq(Followed, LAMBDA h : PageHits(h, sd.query_terms))
                 found == IF DocsResults THEN DocsOf(sd.out.json) ELSE << >>
                 main_hit == \E t \in 1..Len(sd.query_terms) :
                                Occurs(DocAnswer(DOCS_URL).page.text, sd.query_terms[t])
             IN  found = (IF main_hit THEN <<DOCS_URL>> ELSE << >>)
                         \o [i \in 1..Len(linked) |-> UrlJoin(DOCS_URL, linked[i])]
    /\ (sg.pc = "returned" /\ sg.out # Text("Please provide a search query."))
          => /\ GithubReturned
             /\ LET files == GetGithubStructure(site.repo_root).files
                     Hit(f) == /\ FileAnswer(f.path).status = 200
                               /\ \E t \in 1..Len(sg.query_terms) :
                                     Occurs(FileAnswer(f.path).page, sg.query_terms[t])
                     hits == SelectSeq(files, Hit)
                 IN  DocsOf(sg.root_results) = [i \in 1..Len(hits) |-> hits[i].path]

\* search_docs returned the result of a page that comes after a page that
\* could not be fetched
C19_Witness ==
    /\ DocsResults
    /\ \E i, j \in 1..Len(Followed) :
          /\ i < j
          /\ DocAnswer(UrlJoin(DOCS_URL, Followed[i])).status # 200
          /\ \E r \in 1..Len(sd.out.json) :
                sd.out.json[r].doc = UrlJoin(DOCS_URL, Followed[j])

\* the locals of the call of a tool
LocalsOf(called) ==
    CASE called = "search_docs" -> sd
      [] called = "search_github" -> sg
      [] called = "search_files" -> sf
      [] called = "get_code_examples" -> gc
      [] called = "get_api_docs" -> ga

\* what a tool answers to a query it rejects
RejectionOf(called) ==
    CASE called \in {"search_docs", "search_github"} -> "Please provide a search query."
      [] called = "search_files" -> "Please provide a filename pattern to search for."
      [] called = "get_code_examples" -> "Please provide a topic to search for code examples."
      [] called = "get_api_docs" -> "Please provide a class or function name to look up."

\* the argument is empty or holds white space only
IsBlank(query) == \A i \in 1..Len(query) : query[i] \in Whitespace

CachesNow == [doc_cache |-> doc_cache, github_cache |-> github_cache]

\* C12: search_docs, search_github, search_files, get_code_examples and
\* get_api_docs reject a query that is empty or only white space as a
\* user-input error: the call goes from its start straight to the answer
\* "Please provide ...", no request is ever issued, and both caches stay
\* as they were when the tool was called.
C12_BlankQueryRejected ==
    (tool \in Tools /\ IsBlank(arg)) =>
        /\ net = << >>
        /\ CachesNow \in CachesAtCall
        /\ LocalsOf(tool).pc \in {"called", "returned"}
        /\ LocalsOf(tool).pc = "returned" =>
               LocalsOf(tool).out = Text(RejectionOf(tool))
        /\ \A other \in Tools \ {tool} : LocalsOf(other) = Idle

\* a query of white space only has been rejected while the caches held
\* entries
C12_Witness ==
    /\ tool \in Tools
    /\ arg # << >>
    /\ IsBlank(arg)
    /\ LocalsOf(tool).pc = "returned"
    /\ DOMAIN doc_cache # {}
    /\ DOMAIN github_cache # {}

\* the texts of the corpus: the pages of the documentation, the files of
\* the repository and the names that its listings show
CorpusTexts ==
    LET Names(answer) == IF answer.status = 200
                         THEN {FileItems(answer.page)[k].text :
                                  k \in 1..Len(FileItems(answer.page))}
                         ELSE {}
    IN  {site.docs[u].page.text : u \in {v \in DOMAIN site.docs : site.docs[v].status = 200}}
        \cup {site.files[p].page : p \in {q \in DOMAIN site.files : site.files[q].status = 200}}
        \cup DOMAIN site.files
        \cup UNION {Names(site.dirs[d]) : d \in DOMAIN site.dirs}
        \cup Names(site.repo_root)

\* the terms a search tool looks for
TermsOf(called, query) ==
    IF called = "search_files" THEN <<CleanQuery(query)>> ELSE QueryTerms(query)

\* the query is not blank and no text of the corpus holds a term of it
MatchesNothing(called, query) ==
    /\ ~IsBlank(query)
    /\ \A t \in CorpusTexts : ~AnyTermIn(t, TermsOf(called, query))

\* the payload is a document that tells which directories or pages were
\* tried
ListsAttempts(out) ==
    /\ IsJson(out)
    /\ "debug_info" \in DOMAIN out.json
    /\ out.json.debug_info.directories_searched # << >>

\* C18: when the query is not empty and matches no document of the
\* corpus, search_docs (the main page being reachable), search_github and
\* search_files each return a structured empty-result payload that lists
\* the directories or pages that were tried.
C18_EmptyResultListsAttempts ==
    \A called \in {"search_docs", "search_github", "search_files"} :
        ( /\ tool = called
          /\ LocalsOf(called).pc = "returned"
          /\ MatchesNothing(called, arg)
          /\ called = "search_docs" => DocAnswer(DOCS_URL).status = 200 )
        => ListsAttempts(LocalsOf(called).out)

\* C18 holds of search_github and search_files
C18_RepositorySearches ==
    \A called \in {"search_github", "search_files"} :
        ( /\ tool = called
          /\ LocalsOf(called).pc = "returned"
          /\ MatchesNothing(called, arg) )
        => ListsAttempts(LocalsOf(called).out)

(***************************************************************************)
(* Properties of the crawl                                                 *)
(***************************************************************************)
Done(t) == tasks[t].pc = "done"

\* coroutine t has gathered the crawls of its sub-directories and returned
JoinedAndDone(t) == Done(t) /\ ChildIds(t) # {} /\ IsStructure(tasks[t].result)

\* C5: in a crawl started with max_depth = 2, the directories at the depth
\* limit (the sub-directories of the sub-directories of the directory the
\* crawl started at, like nested/ below examples/ below the root) are marked
\* with the depth-limit note and their contents are not listed.
C5_DepthLimitMarked ==
    \A t \in DOMAIN tasks :
        (Len(t) = 1 /\ tasks[t].max_depth = DefaultMaxDepth /\ JoinedAndDone(t)) =>
            \A i \in 1..Len(tasks[t].result.directories) :
                LET child == tasks[t].result.directories[i].contents
                IN  IsStructure(child) =>
                        \A k \in 1..Len(child.directories) :
                            child.directories[k].contents = MaxDepthNote

\* C6: no crawl has returned while a crawl it started is pending, and
\* list_github_structure has not returned while any crawl is pending.
C6_JoinBeforeReturn ==
    /\ \A t \in DOMAIN tasks : Done(t) => \A c \in ChildIds(t) : Done(c)
    /\ main = "returned" => \A t \in DOMAIN tasks : Done(t)
    /\ returned # NoDict => main = "returned"

\* list_github_structure has returned after a crawl with sub-crawls
C6_Witness ==
    /\ main = "returned"
    /\ returned # NoDict
    /\ \E t \in DOMAIN tasks : Cardinality(ChildIds(t)) >= 2

\* C7: when the crawl of one sub-directory fails, the failure is the
\* contents of the node of that sub-directory, and the result of every
\* sub-directory is the contents of its own node.
C7_FailureOnChildSiblingsAttached ==
    \A t \in DOMAIN tasks :
        (/\ JoinedAndDone(t)
         /\ \E j \in 1..Len(tasks[t].subdirs) : IsError(tasks[Append(t, j)].result))
        => \A j \in 1..Len(tasks[t].subdirs) :
              \E k \in 1..Len(tasks[t].result.directories) :
                 /\ tasks[t].result.directories[k].path = tasks[t].subdirs[j]
                 /\ tasks[t].result.directories[k].contents = tasks[Append(t, j)].result

\* C8: a crawl whose listing request is answered 404 returns an error dict
\* that lists no files and no directories, it raises nothing, the crawl
\* that started it still returns its structure, and list_github_structure
\* returns the result of every key directory.
C8_NotFoundIsEmptyNode ==
    /\ \A t \in DOMAIN tasks :
          (Done(t) /\ remote[tasks[t].dir_path].status = 404) =>
              /\ tasks[t].result = DirectoryNotFound(tasks[t].dir_path)
              /\ IsDict(tasks[t].result)
              /\ ~IsStructure(tasks[t].result)
    /\ \A t \in DOMAIN tasks :
          (Done(t) /\ ChildIds(t) # {}) =>
              /\ IsStructure(tasks[t].result)
              /\ tasks[t].result.files = tasks[t].structure.files
              /\ Len(tasks[t].result.directories) = Len(tasks[t].structure.directories)
    /\ main = "returned" =>
          /\ errors = << >>
          /\ \A i \in 1..Len(key_dirs) :
                /\ key_dirs[i] \in DOMAIN returned.directories
                /\ returned.directories[key_dirs[i]] = tasks[<<i>>].result

\* list_github_structure has returned; one key directory answered 404, and
\* a sub-directory of another one did
C8_Witness ==
    /\ main = "returned"
    /\ \E i, j \in 1..Len(key_dirs) :
          /\ remote[key_dirs[i]].status = 404
          /\ returned.directories[key_dirs[i]] = DirectoryNotFound(key_dirs[i])
          /\ IsStructure(returned.directories[key_dirs[j]])
          /\ returned.directories[key_dirs[j]].files # << >>
          /\ \E k \in 1..Len(returned.directories[key_dirs[j]].directories) :
                LET node == returned.directories[key_dirs[j]].directories[k]
                IN  node.contents = DirectoryNotFound(node.path)

(***************************************************************************)
(* Properties of search_files                                              *)
(***************************************************************************)
FilesReturned == sf.pc = "returned" /\ IsJson(sf.out)

\* the search_directory calls of stack made one after the other, each with
\* all that lies below it, on the matches and errors of acc
RECURSIVE OneAfterTheOther(_, _, _)
OneAfterTheOther(stack, acc, filename_pattern) ==
    IF stack = << >> THEN acc
    ELSE LET dir_path == Head(stack)
             answer == DirAnswer(dir_path)
             found == SearchFilesItems([subdirs |-> << >>, matches |-> acc.matches,
                                        search_errors |-> acc.search_errors],
                                       IF answer.status = 200 THEN BoxRows(answer.page)
                                       ELSE << >>,
                                       dir_path, filename_pattern)
         IN  OneAfterTheOther(
                 IF answer.status = 200
                 THEN SelectSeq(found.subdirs, DeepEnough) \o Tail(stack)
                 ELSE Tail(stack),
                 [matches |-> found.matches,
                  search_errors |->
                      IF answer.status = 404
                      THEN Append(acc.search_errors, Failure("Directory not found", dir_path))
                      ELSE IF answer.status # 200
                      THEN Append(acc.search_errors,
                                  Failure("Error searching directory", dir_path))
                      ELSE found.search_errors],
                 filename_pattern)

\* what search_files collects when each branch keeps its matches and its
\* errors to itself and the caller puts them together, branch after branch,
\* after the join
MergedAfterJoin ==
    LET structure == GetGithubStructure(site.repo_root)
        failed == "error" \in DOMAIN structure
        root == [matches |-> IF failed THEN << >>
                             ELSE RootMatches(structure.files, sf.filename_pattern),
                 search_errors |->
                     IF failed
                     THEN <<Failure("Error getting repository structure", RootPath)>>
                     ELSE << >>]
        Branch(k) == OneAfterTheOther(<<search_files_key_dirs[k]>>,
                                      [matches |-> << >>, search_errors |-> << >>],
                                      sf.filename_pattern)
        RECURSIVE Merge(_, _)
        Merge(acc, k) ==
            IF k > Len(search_files_key_dirs) THEN acc
            ELSE Merge([matches |-> acc.matches \o Branch(k).matches,
                        search_errors |-> acc.search_errors \o Branch(k).search_errors],
                       k + 1)
        joined == Merge(root, 1)
    IN  IF joined.matches # << >> THEN joined
        ELSE OneAfterTheOther(direct_paths, joined, sf.filename_pattern)

\* C26: no list is shared between the branches of a fan-out; each branch
\* of search_files collects its matches and its errors in a structure of
\* its own and the caller merges them after the join, so what search_files
\* returns is what the branches give one after the other, however their
\* steps interleave.
C26_ResultIndependentOfInterleaving ==
    FilesReturned =>
        /\ (sf.out.json.debug_info.errors = MergedAfterJoin.search_errors)
        /\ IF MergedAfterJoin.matches = << >>
           THEN "error" \in DOMAIN sf.out.json
           ELSE /\ "matches" \in DOMAIN sf.out.json
                /\ sf.out.json.matches = MergedAfterJoin.matches

\* whatever the interleaving, search_files returns the same matches and
\* the same errors, in some order
C26_SameUpToOrder ==
    FilesReturned =>
        /\ Range(sf.out.json.debug_info.errors) = Range(MergedAfterJoin.search_errors)
        /\ Len(sf.out.json.debug_info.errors) = Len(MergedAfterJoin.search_errors)
        /\ IF MergedAfterJoin.matches = << >>
           THEN "error" \in DOMAIN sf.out.json
           ELSE /\ "matches" \in DOMAIN sf.out.json
                /\ Range(sf.out.json.matches) = Range(MergedAfterJoin.matches)
                /\ Len(sf.out.json.matches) = Len(MergedAfterJoin.matches)

\* C27: search_files never requests the listing of a directory whose path
\* has more than 3 segments, whatever the repository holds, in the search
\* of the key directories and in the search of the direct paths that
\* follows when nothing matched.
C27_DepthCapped ==
    \A i \in 1..Len(net) :
        net[i].host = "github" => Segments(net[i].at) <= MaxSegments

\* nothing matched and the direct paths have been searched; the listing of
\* examples/agents/agents, of 3 segments, was requested and holds a
\* directory
C27_Witness ==
    /\ FilesReturned
    /\ "error" \in DOMAIN sf.out.json
    /\ \E i \in 1..Len(net) : net[i].at = ExamplesAgentsAgents
    /\ Cardinality({i \in 1..Len(net) : net[i].at = SrcAgents}) > 1
    /\ DirAnswer(ExamplesAgentsAgents).status = 200
    /\ \E r \in 1..Len(BoxRows(DirAnswer(ExamplesAgentsAgents).page)) :
          BoxRows(DirAnswer(ExamplesAgentsAgents).page)[r].label = LabelDirectory

\* the sub-directories that search_directory(dir_path) finds in its listing
SubdirsOf(dir_path) ==
    LET answer == DirAnswer(dir_path)
    IN  SearchFilesItems([subdirs |-> << >>, matches |-> << >>, search_errors |-> << >>],
                         IF answer.status = 200 THEN BoxRows(answer.page) ELSE << >>,
                         dir_path, sf.filename_pattern).subdirs

\* the search_directory calls that are waiting for their listing
Searching ==
    IF sf.pc \in {"gather", "retry"}
    THEN {Head(sf.tasks[k].stack) : k \in {i \in 1..Len(sf.tasks) : sf.tasks[i].stack # << >>}}
    ELSE {}

\* C30: search_files terminates whatever the repository holds, also when a
\* directory holds an entry with its own name or two directories list each
\* other: every search_directory call made from a listing is on a path
\* with more segments than the path of the listing and with 3 segments at
\* most, and the call of search_files returns.
C30_Terminates ==
    /\ [](\A dir_path \in Searching :
             /\ Segments(dir_path) <= MaxSegments
             /\ \A j \in 1..Len(SubdirsOf(dir_path)) :
                    Segments(SubdirsOf(dir_path)[j]) > Segments(dir_path))
    /\ <>(sf.pc = "returned")

\* search_files has returned from a repository whose listings go round,
\* after it requested a listing of 3 segments
C30_Witness ==
    /\ FilesReturned
    /\ site.below # << >>
    /\ \E i \in 1..Len(net) : Segments(net[i].at) = MaxSegments

====
